---- MODULE Spec2Model ----
(***************************************************************************)
(* A model of sympy/core/evalf.py, the adaptive numerical evaluator.       *)
(*                                                                         *)
(* The evaluator is a recursive descent over an expression tree.  Every    *)
(* group of variables below models one routine of the file; the mpmath     *)
(* primitives it calls (fatan, fsin, flog, fpowi, ...) and the results of  *)
(* child evaluations are inputs, drawn from small sets.                    *)
(*                                                                         *)
(*   SpecAdd      evalf_add / do_integral and the shared options dict      *)
(*   SpecPart     get_complex_part (re, im)                                *)
(*   SpecEvalf    evalf, the dispatcher, and its chop / strict checks      *)
(*   SpecInt      get_integer_part (floor, ceiling)                        *)
(*   SpecTerms    add_terms, the guarded summation                         *)
(*   SpecCmul     cmul, the complex cross-multiplication                   *)
(*   SpecMul      evalf_mul                                                *)
(*   SpecFunc     evalf_pow, evalf_trig, evalf_log, evalf_atan             *)
(*   SpecSymbol   evalf_symbol and its cache                               *)
(*   SpecIntegralFair  evalf_integral, the retry loop over do_integral     *)
(*   SpecKernel   finalize_complex, complex_accuracy, chop_parts           *)
(*   SpecBasic    Basic_evalf, the top-level entry point                   *)
(***************************************************************************)
EXTENDS Integers, Sequences, FiniteSets, TLC

VARIABLES
    stack,   \* evalf_add / do_integral / integrand-sample frames, innermost last
    opts,    \* the options dicts alive: opts[1] is the top-level call's
    exc,     \* the exception in flight, "none" when there is none
    ret,     \* the exit the last step made, NoRet when it made none
    gcp,     \* get_complex_part: its locals and where it stands
    disp,    \* evalf, the dispatcher: one call and its outcome
    gip,     \* get_integer_part: its locals and where it stands
    at,      \* add_terms: one call, its arguments and its result
    cm,      \* cmul: one call, the terms it hands to add_terms and its result
    mul,     \* evalf_mul: its locals and where it stands
    un,      \* evalf_pow, evalf_trig, evalf_log, evalf_atan: one call
    sym,     \* evalf_symbol: options['_cache'] and the requests under way
    ei,      \* evalf_integral: its loop over do_integral
    kn,      \* finalize_complex, complex_accuracy, chop_parts: one call
    top      \* Basic_evalf: one top-level call

addVars == <<stack, opts, exc, ret>>
vars == <<stack, opts, exc, ret, gcp, disp, gip, at, cm, mul, un, sym, ei, kn, top>>

\* What the steps of one routine leave alone: the variables of the others.
addOthers == <<gcp, disp, gip, at, cm, mul, un, sym, ei, kn, top>>
gcpOthers == <<addVars, disp, gip, at, cm, mul, un, sym, ei, kn, top>>
dispOthers == <<addVars, gcp, gip, at, cm, mul, un, sym, ei, kn, top>>
gipOthers == <<addVars, gcp, disp, at, cm, mul, un, sym, ei, kn, top>>
atOthers == <<addVars, gcp, disp, gip, cm, mul, un, sym, ei, kn, top>>
unOthers == <<addVars, gcp, disp, gip, at, cm, mul, sym, ei, kn, top>>
symOthers == <<addVars, gcp, disp, gip, at, cm, mul, un, ei, kn, top>>
cmOthers == <<addVars, gcp, disp, gip, at, mul, un, sym, ei, kn, top>>
mulOthers == <<addVars, gcp, disp, gip, at, cm, un, sym, ei, kn, top>>
eiOthers == <<addVars, gcp, disp, gip, at, cm, mul, un, sym, kn, top>>
knOthers == <<addVars, gcp, disp, gip, at, cm, mul, un, sym, ei, top>>
topOthers == <<addVars, gcp, disp, gip, at, cm, mul, un, sym, ei, kn>>

(***************************************************************************)
(* Numbers of the program and bounds of the model                          *)
(***************************************************************************)

\* INF and MINUS_INF stand for 1e1000 and -1e1000: every finite quantity of
\* the model lies strictly between them, and they are only ever compared.
INF == 1000000
MINUS_INF == -1000000
DEFAULT_MAXPREC == 333

\* How deep evaluations nest, and how many nested calls one iteration makes.
MaxDepth == 3
MaxKids == 1

Min(a, b) == IF a <= b THEN a ELSE b
Max(a, b) == IF a >= b THEN a ELSE b

(***************************************************************************)
(* Values and the accuracy kernel                                          *)
(***************************************************************************)

\* An mpf value is the tuple <<sign, man, exp, bc>>; None, the absent part
\* (an exact zero), is the empty tuple.  A result is <<re, im, re_acc, im_acc>>.
\* NoAcc is the accuracy None: Python 2 orders None below every number.
None == <<>>
fzero == <<0, 0, 0, 0>>
fone == <<0, 1, 0, 1>>
NoAcc == MINUS_INF - 1

\* if x: (a part is there)
Present(x) == x # None

\* bitcount(n) for n >= 0
RECURSIVE bitcount(_)
bitcount(n) == IF n = 0 THEN 0 ELSE 1 + bitcount(n \div 2)

\* The mpf value sign * man * 2^exp in its normal form: an odd mantissa.
RECURSIVE MakeMpf(_, _, _)
MakeMpf(sign, man, exp) ==
    IF man = 0 THEN fzero
    ELSE IF man % 2 = 0 THEN MakeMpf(sign, man \div 2, exp + 1)
    ELSE <<sign, man, exp, bitcount(man)>>

Abs(n) == IF n < 0 THEN -n ELSE n

\* from_int(n)
from_int(n) == MakeMpf(IF n < 0 THEN 1 ELSE 0, Abs(n), 0)

\* fshift(fone, n): the power of two 2^n
fshift_fone(n) == <<0, 1, n, 1>>

\* fneg(x)
fneg(x) == IF x = fzero THEN fzero ELSE <<1 - x[1], x[2], x[3], x[4]>>

\* fmul(s, t, prec): the product, its mantissa cut down to prec bits
\* (round_fast, the default of the mpmath primitive, rounds toward zero)
\* and stripped of its trailing zero bits.
fmul(s, t, prec) ==
    LET man == s[2] * t[2]
        bc == bitcount(man)
        n == bc - prec IN
    IF man = 0 THEN fzero
    ELSE IF n > 0
    THEN MakeMpf((s[1] + t[1]) % 2, man \div 2 ^ n, s[3] + t[3] + n)
    ELSE MakeMpf((s[1] + t[1]) % 2, man, s[3] + t[3])

\* fcmp(x or fzero, fzero): -1, 0 or 1
fcmp_zero(x) ==
    IF x = None \/ x = fzero THEN 0 ELSE IF x[1] = 1 THEN -1 ELSE 1

\* fastlog(x): exponent + width of the mantissa, MINUS_INF for a zero.
fastlog(x) == IF x = None \/ x = fzero THEN MINUS_INF ELSE x[3] + x[4]

complex_accuracy_min(result) ==
    IF ~Present(result[2])
    THEN IF ~Present(result[1]) THEN INF ELSE result[3]
    ELSE IF ~Present(result[1]) THEN result[4]
    ELSE Min(result[3], result[4])

\* complex_accuracy(result)
complex_accuracy(result) ==
    LET re == result[1]
        im == result[2]
        re_acc == result[3]
        im_acc == result[4]
        re_size == fastlog(re)
        im_size == fastlog(im)
        absolute_error == Max(re_size - re_acc, im_size - im_acc)
        relative_error == absolute_error - Max(re_size, im_size) IN
    IF ~Present(im)
    THEN IF ~Present(re) THEN INF ELSE re_acc
    ELSE IF ~Present(re) THEN im_acc
    ELSE -relative_error

chop_parts_relative_only(value, prec) ==
    LET both == Present(value[1]) /\ Present(value[2])
        delta == fastlog(value[1]) - fastlog(value[2])
        c3 == both /\ value[3] < 2 /\ (delta - value[3] <= -prec + 4)
        c4 == both /\ value[4] < 2 /\ (delta - value[4] >= prec - 4) IN
    <<IF c3 THEN None ELSE value[1],
      IF c4 THEN None ELSE value[2],
      IF c3 THEN NoAcc ELSE value[3],
      IF c4 THEN NoAcc ELSE value[4]>>

\* chop_parts(value, prec)
chop_parts(value, prec) ==
    LET re0 == value[1]
        im0 == value[2]
        c1 == Present(re0) /\ fastlog(re0) < -prec + 4
        c2 == Present(im0) /\ fastlog(im0) < -prec + 4
        re1 == IF c1 THEN None ELSE re0
        im1 == IF c2 THEN None ELSE im0
        re_acc1 == IF c1 THEN NoAcc ELSE value[3]
        im_acc1 == IF c2 THEN NoAcc ELSE value[4]
        both == Present(re1) /\ Present(im1)
        delta == fastlog(re1) - fastlog(im1)
        c3 == both /\ re_acc1 < 2 /\ (delta - re_acc1 <= -prec + 4)
        c4 == both /\ im_acc1 < 2 /\ (delta - im_acc1 >= prec - 4) IN
    <<IF c3 THEN None ELSE re1,
      IF c4 THEN None ELSE im1,
      IF c3 THEN NoAcc ELSE re_acc1,
      IF c4 THEN NoAcc ELSE im_acc1>>

\* check_target(expr, result, prec) raises PrecisionExhausted.
check_target_real_only(result, prec) == result[3] < prec

check_target(result, prec) == complex_accuracy(result) < prec

(***************************************************************************)
(* The options dict: only the 'maxprec' key matters to the frames.         *)
(***************************************************************************)

\* A dict with 'maxprec' set to v, and a dict without the key.
WithMaxprec(v) == [set |-> TRUE, v |-> v]
NoMaxprec == [set |-> FALSE, v |-> 0]

\* options.get('maxprec', default)
OptGet(o, default) == IF o.set THEN o.v ELSE default

\* The target precisions a call is made with and the ceilings Basic_evalf
\* installs: int(maxprec*LG10) for the caller's maxprec of 4 and of 12 digits.
PrecSet == {10, 25}
MaxprecSet == {13, 39}
ExcSet == {"NotImplementedError", "PrecisionExhausted", "ValueError"}

\* What one iteration of evalf_add can obtain as the sum's combined accuracy:
\* any shortfall, the target itself, or INF for an exactly zero sum.
AddAccSet(target) == {-1, target - 1, INF}

NoRet == [kind |-> "none", path |-> "none", entry |-> NoMaxprec,
          exit |-> NoMaxprec, depth |-> 0, short |-> FALSE]

Top == stack[Len(stack)]
Depth == Len(stack)
Pop == SubSeq(stack, 1, Len(stack) - 1)

\* The frame can make one more nested evaluation now.
CanCall == /\ exc = "none"
           /\ Depth > 0
           /\ Depth < MaxDepth
           /\ Top.kids < MaxKids

Called == [stack EXCEPT ![Len(stack)].kids = @ + 1]

(***************************************************************************)
(* evalf_add and do_integral: the frames that lower the ceiling            *)
(***************************************************************************)

\* A frame: kind is "add" (evalf_add), "integral" (do_integral) or "f" (one
\* call of do_integral's integrand f); d is the options dict it works on;
\* entry, prevprec and prevacc record, for the properties, the dict as the
\* call found it and the precision and accuracy of the iteration before.
Frame(kind, d, old, entry, prec) ==
    [kind |-> kind, d |-> d, oldmaxprec |-> old, entry |-> entry,
     prec |-> prec, target |-> prec, i |-> 0, kids |-> 0,
     prevprec |-> prec, prevacc |-> 0]

\* oldmaxprec = options.get('maxprec', DEFAULT_MAXPREC)
\* options['maxprec'] = min(oldmaxprec, 2*prec)
Lowered(o, d, prec) ==
    [o EXCEPT ![d] = WithMaxprec(Min(OptGet(o[d], DEFAULT_MAXPREC), 2 * prec))]

\* Entering evalf_add or do_integral on dict d of o at precision prec.
Enter(kind, o, d, prec, stk) ==
    /\ stack' = Append(stk, Frame(kind, d, OptGet(o[d], DEFAULT_MAXPREC), o[d], prec))
    /\ opts' = Lowered(o, d, prec)

\* The finally clause of evalf_add, run on every way out of its try block.
AddFinallyOnlyOnReturn(f, path) ==
    IF path = "raise" THEN opts
    ELSE [opts EXCEPT ![f.d] = WithMaxprec(f.oldmaxprec)]

AddFinally(f, path) ==
    [opts EXCEPT ![f.d] = WithMaxprec(f.oldmaxprec)]

\* The finally clause of do_integral.
IntegralFinally(f, path) ==
    [opts EXCEPT ![f.d] = WithMaxprec(f.oldmaxprec)]

Finally(f, path) ==
    IF f.kind = "add" THEN AddFinally(f, path) ELSE IntegralFinally(f, path)

\* The innermost frame leaves by path ("return", "early" or "raise").
Exit(path, acc) ==
    LET f == Top
        o == Finally(f, path) IN
    /\ stack' = Pop
    /\ opts' = o
    /\ ret' = [kind |-> f.kind, path |-> path, entry |-> f.entry,
               exit |-> o[f.d], depth |-> Depth, short |-> acc < f.target]

\* Basic_evalf: a new options dict with 'maxprec' set, and the root evaluated.
BasicEvalf ==
    /\ Depth = 0
    /\ exc = "none"
    /\ \E mp \in MaxprecSet, kind \in {"add", "integral"}, prec \in PrecSet :
          Enter(kind, <<WithMaxprec(mp)>>, 1, prec, <<>>)
    /\ ret' = NoRet
    /\ UNCHANGED exc
    /\ UNCHANGED addOthers

\* The precision at which a frame evaluates a child: evalf(arg, prec+10) in
\* evalf_add, as_mpmath(xlow, prec+15) in do_integral, the integrand itself
\* inside f.
ChildPrec(f) ==
    CASE f.kind = "add" -> f.prec + 10
      [] f.kind = "integral" -> f.prec + 15
      [] OTHER -> f.prec

\* A child evaluation reaches a nested sum or integral, on the same dict.
NestedCall ==
    /\ CanCall
    /\ \E kind \in {"add", "integral"} :
          Enter(kind, opts, Top.d, ChildPrec(Top), Called)
    /\ ret' = NoRet
    /\ UNCHANGED exc
    /\ UNCHANGED addOthers

\* quadts calls f(t): evalf(func, prec+15, {'subs': {x: t}}), a fresh dict.
Sample ==
    /\ CanCall
    /\ Top.kind = "integral"
    /\ opts' = Append(opts, NoMaxprec)
    /\ stack' = Append(Called,
                       Frame("f", Len(opts) + 1, 0, NoMaxprec, Top.prec + 15))
    /\ ret' = NoRet
    /\ UNCHANGED exc
    /\ UNCHANGED addOthers

\* f returns: its dict is dropped.
SampleReturn ==
    /\ exc = "none"
    /\ Depth > 0
    /\ Top.kind = "f"
    /\ stack' = Pop
    /\ opts' = SubSeq(opts, 1, Len(opts) - 1)
    /\ ret' = NoRet
    /\ UNCHANGED exc
    /\ UNCHANGED addOthers

\* The step by which evalf_add raises its working precision on retry i.
AddStepNoShortfall(i, diff) == 10 + 2 ^ i

AddStep(i, diff) == Max(10 + 2 ^ i, diff)

\* One pass of evalf_add's loop once the summands are evaluated: the
\* combined accuracy acc of the sum decides between returning, giving up and
\* retrying.
AddIterate ==
    /\ exc = "none"
    /\ Depth > 0
    /\ Top.kind = "add"
    /\ \E acc \in AddAccSet(Top.target) :
          LET f == Top IN
          IF acc >= f.target
          THEN Exit("return", acc)
          ELSE IF (f.prec - f.target) > OptGet(opts[f.d], DEFAULT_MAXPREC)
          THEN Exit("early", acc)
          ELSE LET prec == f.prec + AddStep(f.i, f.target - acc) IN
               /\ stack' = [stack EXCEPT ![Len(stack)] =
                              [f EXCEPT !.prec = prec, !.i = f.i + 1, !.kids = 0,
                                        !.prevprec = f.prec, !.prevacc = acc]]
               /\ opts' = [opts EXCEPT ![f.d] =
                              WithMaxprec(Min(f.oldmaxprec, 2 * prec))]
               /\ ret' = NoRet
    /\ UNCHANGED exc
    /\ UNCHANGED addOthers

\* do_integral leaves its try block normally.
IntegralReturn ==
    /\ exc = "none"
    /\ Depth > 0
    /\ Top.kind = "integral"
    /\ Exit("return", 0)
    /\ UNCHANGED exc
    /\ UNCHANGED addOthers

\* A child evaluation raises.
ChildRaises ==
    /\ exc = "none"
    /\ Depth > 0
    /\ \E e \in ExcSet : exc' = e
    /\ ret' = NoRet
    /\ UNCHANGED <<stack, opts>>
    /\ UNCHANGED addOthers

\* The exception leaves the innermost frame, through its finally clause.
Unwind ==
    /\ exc # "none"
    /\ Depth > 0
    /\ IF Top.kind = "f"
       THEN /\ stack' = Pop
            /\ opts' = SubSeq(opts, 1, Len(opts) - 1)
            /\ ret' = NoRet
       ELSE Exit("raise", 0)
    /\ UNCHANGED exc
    /\ UNCHANGED addOthers

\* The exception leaves the top-level call.
Propagate ==
    /\ exc # "none"
    /\ Depth = 0
    /\ exc' = "none"
    /\ ret' = NoRet
    /\ UNCHANGED <<stack, opts>>
    /\ UNCHANGED addOthers

AddIdle ==
    /\ stack = <<>>
    /\ opts = <<WithMaxprec(DEFAULT_MAXPREC)>>
    /\ exc = "none"
    /\ ret = NoRet

NextAdd ==
    \/ BasicEvalf
    \/ NestedCall
    \/ Sample
    \/ SampleReturn
    \/ AddIterate
    \/ IntegralReturn
    \/ ChildRaises
    \/ Unwind
    \/ Propagate

(***************************************************************************)
(* get_complex_part: the loop behind re(...) and im(...)                   *)
(***************************************************************************)

\* The model stops the escalation at this working precision.
GcpWorkCap == 400

GcpIdle == gcp = [pc |-> "idle", no |-> 0, prec |-> 0, workprec |-> 0, i |-> 0,
                  maxprec |-> 0, prevwork |-> 0, acc |-> 0]

\* get_complex_part(expr, no, prec, options) is called; maxprec is the
\* options['maxprec'] in force during the call.
GcpCall ==
    /\ gcp.pc # "eval"
    /\ \E no \in {0, 1}, prec \in PrecSet, mp \in MaxprecSet :
          gcp' = [pc |-> "eval", no |-> no, prec |-> prec, workprec |-> prec,
                  i |-> 0, maxprec |-> mp, prevwork |-> prec, acc |-> 0]
    /\ UNCHANGED gcpOthers

\* The accuracies the child can report for the requested part at workprec.
GcpAccSet(prec, workprec) == {-1, prec - 1, prec, workprec}

\* One pass of the loop: res = evalf(expr, workprec, options) has the
\* requested part absent or present with some accuracy.
GcpIterate ==
    /\ gcp.pc = "eval"
    /\ \E present \in BOOLEAN, acc \in GcpAccSet(gcp.prec, gcp.workprec) :
          IF ~present \/ acc >= gcp.prec
          THEN gcp' = [gcp EXCEPT !.pc = "returned",
                                  !.acc = IF present THEN acc ELSE NoAcc]
          ELSE /\ gcp.workprec + Max(30, 2 ^ gcp.i) <= GcpWorkCap
               /\ gcp' = [gcp EXCEPT !.workprec = @ + Max(30, 2 ^ gcp.i),
                                     !.i = @ + 1,
                                     !.prevwork = gcp.workprec,
                                     !.acc = acc]
    /\ UNCHANGED gcpOthers

\* The child evaluation raises (PrecisionExhausted under strict, or any other).
GcpChildRaises ==
    /\ gcp.pc = "eval"
    /\ gcp' = [gcp EXCEPT !.pc = "raised"]
    /\ UNCHANGED gcpOthers

NextPart ==
    \/ GcpCall
    \/ GcpIterate
    \/ GcpChildRaises

(***************************************************************************)
(* evalf: the dispatcher                                                   *)
(***************************************************************************)

\* Values an evaluator hands back: 2^-31, -2^-6, 1 and 5.
DispValues == {<<0, 1, -31, 1>>, <<1, 1, -6, 1>>, fone, <<0, 5, 0, 3>>}

\* The accuracy it reports for a part that is there.
DispAccSet(prec) == {-1, 1, prec - 1, prec}

\* An evaluator's result: each part absent or one of the values.
DispResults(prec) ==
    {<<re, im, ra, ia>> :
        re \in DispValues \cup {None}, im \in DispValues \cup {None},
        ra \in DispAccSet(prec) \cup {NoAcc}, ia \in DispAccSet(prec) \cup {NoAcc}}

DispWellFormed(r) ==
    /\ (r[3] = NoAcc) <=> (r[1] = None)
    /\ (r[4] = NoAcc) <=> (r[2] = None)

NoResult == <<None, None, NoAcc, NoAcc>>

DispIdle == disp = [pc |-> "idle", prec |-> 0, chop |-> FALSE, strict |-> FALSE,
                    how |-> "none", r |-> NoResult, out |-> NoResult,
                    err |-> "none"]

\* r = evalf_table[x.func](x, prec, options): the evaluator of x's kind
\* returns r or raises.
DispEvaluator ==
    /\ disp.pc = "idle"
    /\ \E prec \in PrecSet, chop \in BOOLEAN, strict \in BOOLEAN :
          \/ \E r \in DispResults(prec) :
                /\ DispWellFormed(r)
                /\ disp' = [pc |-> "evaluated", prec |-> prec, chop |-> chop,
                            strict |-> strict, how |-> "table", r |-> r,
                            out |-> NoResult, err |-> "none"]
          \/ \E e \in ExcSet :
                disp' = [pc |-> "raised", prec |-> prec, chop |-> chop,
                         strict |-> strict, how |-> "table", r |-> NoResult,
                         out |-> NoResult, err |-> e]
    /\ UNCHANGED dispOthers

\* r = x._eval_evalf(prec)._mpf_, None, prec, None
FallbackResultNoAccuracy(v, prec) == <<v, None, -1, NoAcc>>

FallbackResult(v, prec) == <<v, None, prec, NoAcc>>

\* except KeyError: x's kind has no evaluator; x._eval_evalf(prec)._mpf_ is
\* taken as a real result of accuracy prec, and a node without it raises
\* NotImplementedError.
DispFallback ==
    /\ disp.pc = "idle"
    /\ \E prec \in PrecSet, chop \in BOOLEAN, strict \in BOOLEAN :
          \/ \E v \in DispValues :
                disp' = [pc |-> "evaluated", prec |-> prec, chop |-> chop,
                         strict |-> strict, how |-> "fallback",
                         r |-> FallbackResult(v, prec),
                         out |-> NoResult, err |-> "none"]
          \/ disp' = [pc |-> "raised", prec |-> prec, chop |-> chop,
                      strict |-> strict, how |-> "fallback", r |-> NoResult,
                      out |-> NoResult, err |-> "NotImplementedError"]
    /\ UNCHANGED dispOthers

\* The rest of evalf: chop_parts under 'chop', check_target under 'strict',
\* return r.
DispFinish ==
    /\ disp.pc = "evaluated"
    /\ LET r == IF disp.chop THEN chop_parts(disp.r, disp.prec) ELSE disp.r IN
       IF disp.strict /\ check_target(r, disp.prec)
       THEN disp' = [disp EXCEPT !.pc = "raised", !.err = "PrecisionExhausted"]
       ELSE disp' = [disp EXCEPT !.pc = "returned", !.out = r]
    /\ UNCHANGED dispOthers

NextEvalf ==
    \/ DispEvaluator
    \/ DispFallback
    \/ DispFinish

(***************************************************************************)
(* get_integer_part: floor and ceiling                                     *)
(***************************************************************************)

\* The parts expr evaluates to, in quarters: -9/4, -3/2, -1/4, 1/4, 2, 9/4, 5/2.
GipQuarters == {-9, -6, -1, 1, 8, 9, 10}

GipParts == {MakeMpf(IF k < 0 THEN 1 ELSE 0, Abs(k), -2) : k \in GipQuarters}

\* The accuracies evalf(expr, 30, options) reports for a part.
GipAccSet == {5, 30}

\* Four times the value of x, for x a multiple of 1/4.
Quarters(x) ==
    IF x = None \/ x = fzero THEN 0
    ELSE (IF x[1] = 1 THEN -1 ELSE 1) * x[2] * 2 ^ (x[3] + 2)

Floor4(q) == IF q >= 0 THEN q \div 4 ELSE -((-q + 3) \div 4)

\* int(to_int(x, round_nearest)): the nearest integers of x, both at a tie.
NearestInts(x) ==
    LET q == Quarters(x)
        lo == Floor4(q)
        r == q - 4 * lo IN
    IF r < 2 THEN {lo} ELSE IF r > 2 THEN {lo + 1} ELSE {lo, lo + 1}

\* What evaluating a residual at 10 bits gives: nothing (an exact zero), or
\* -1/8 or 1/8 with some accuracy; 1/8 with accuracy -1 is a scaled zero.
ResidualValues == {None, <<1, 1, -3, 1>>, <<0, 1, -3, 1>>}
ResidualAccSet == {-1, 2, 3, 10}
Residuals ==
    {[v |-> v, acc |-> a] : v \in ResidualValues, a \in ResidualAccSet \cup {NoAcc}}
ResidualOk(r) == (r.acc = NoAcc) <=> (r.v = None)
NoResidual == [v |-> None, acc |-> NoAcc]

GipIdle == gip = [pc |-> "idle", no |-> 1, ire |-> None, iim |-> None,
                  ire_acc |-> NoAcc, iim_acc |-> NoAcc,
                  nint_re |-> 0, nint_im |-> 0,
                  rre |-> NoResidual, rim |-> NoResidual,
                  re |-> None, im |-> None, re_acc |-> NoAcc, im_acc |-> NoAcc,
                  prec |-> 0, chop |-> FALSE, strict |-> FALSE,
                  out |-> NoResult, err |-> "none"]

\* The results evalf(expr, prec, options) can have.
GipEvaluations ==
    {<<re, im, ra, ia>> :
        re \in GipParts \cup {None}, im \in GipParts \cup {None},
        ra \in GipAccSet \cup {NoAcc}, ia \in GipAccSet \cup {NoAcc}}

\* gap: the largest fastlog(part) - accuracy over the parts that are there.
GipGap(e) ==
    IF Present(e[1]) /\ Present(e[2])
    THEN Max(fastlog(e[1]) - e[3], fastlog(e[2]) - e[4])
    ELSE IF Present(e[1]) THEN fastlog(e[1]) - e[3]
    ELSE fastlog(e[2]) - e[4]

\* evalf(x, prec, options) of a floor or ceiling node x: evalf_floor and
\* evalf_ceiling pass the argument on and leave prec aside.
\* get_integer_part(expr, no, options) up to the test of gap: expr is
\* evaluated at 30 bits; without any part the result is exact zero.
GipCall ==
    /\ gip.pc = "idle"
    /\ \E no \in {-1, 1}, e \in GipEvaluations, prec \in PrecSet,
          chop \in BOOLEAN, strict \in BOOLEAN :
          /\ DispWellFormed(e)
          /\ gip' = [pc |-> IF ~Present(e[1]) /\ ~Present(e[2]) THEN "returned"
                            ELSE IF GipGap(e) >= -10 THEN "reeval" ELSE "re",
                     no |-> no, ire |-> e[1], iim |-> e[2],
                     ire_acc |-> e[3], iim_acc |-> e[4],
                     nint_re |-> 0, nint_im |-> 0,
                     rre |-> NoResidual, rim |-> NoResidual,
                     re |-> None, im |-> None,
                     re_acc |-> NoAcc, im_acc |-> NoAcc,
                     prec |-> prec, chop |-> chop, strict |-> strict,
                     out |-> NoResult, err |-> "none"]
    /\ UNCHANGED gipOthers

\* if gap >= -10: expr is evaluated again, at 30+gap bits.
GipReeval ==
    /\ gip.pc = "reeval"
    /\ \E e \in GipEvaluations :
          /\ DispWellFormed(e)
          /\ gip' = [gip EXCEPT !.pc = "re", !.ire = e[1], !.iim = e[2],
                                !.ire_acc = e[3], !.iim_acc = e[4]]
    /\ UNCHANGED gipOthers

\* nint += int(no*(fcmp(x or fzero, fzero) == no))
GipAdjust(no, x) == IF fcmp_zero(x) = no THEN no ELSE 0

\* The real part: nint_re is the nearest integer; the residual
\* e = re(expr) - nint_re is evaluated at 10 bits to (re, re_acc), checked
\* against 3 bits, and its sign moves nint_re.
GipRe ==
    /\ gip.pc = "re"
    /\ IF ~Present(gip.ire)
       THEN gip' = [gip EXCEPT !.pc = "im"]
       ELSE \E n \in NearestInts(gip.ire), r \in Residuals :
               /\ ResidualOk(r)
               /\ IF check_target(<<r.v, None, r.acc, NoAcc>>, 3)
                  THEN gip' = [gip EXCEPT !.pc = "raised", !.nint_re = n,
                                          !.rre = r,
                                          !.err = "PrecisionExhausted"]
                  ELSE gip' = [gip EXCEPT !.pc = "im", !.nint_re = n, !.rre = r,
                                          !.re = from_int(n + GipAdjust(gip.no, r.v)),
                                          !.re_acc = r.acc]
    /\ UNCHANGED gipOthers

\* What evalf gives for e = im(expr) - nint_im*I at 10 bits: im(expr) is a
\* real term and lands in the real part; the imaginary part is the term
\* -nint_im*I alone, evaluated at 20 bits (None when nint_im is 0).
GipImResidualEval(iim, n, acc) ==
    <<iim, IF n = 0 THEN None ELSE from_int(-n),
      acc, IF n = 0 THEN NoAcc ELSE 20>>

\* The residuals im(expr) - n can evaluate to, given the part iim: on the side
\* of n where iim lies, on either side when iim is n itself.
ImResiduals(iim, n) ==
    {r \in Residuals :
        /\ ResidualOk(r)
        /\ Quarters(iim) > 4 * n => fcmp_zero(r.v) = 1
        /\ Quarters(iim) < 4 * n => fcmp_zero(r.v) = -1}

\* The imaginary part: _, im, _, im_acc = evalf(e, 10, options), the check
\* against 3 bits and the move of nint_im.  rim records what the residual
\* im(expr) - nint_im itself evaluates to.
GipIm ==
    /\ gip.pc = "im"
    /\ IF ~Present(gip.iim)
       THEN gip' = [gip EXCEPT !.pc = "returned"]
       ELSE \E n \in NearestInts(gip.iim) : \E r \in ImResiduals(gip.iim, n) :
               LET e == GipImResidualEval(gip.iim, n, 20) IN
               IF check_target(<<e[2], None, e[4], NoAcc>>, 3)
               THEN gip' = [gip EXCEPT !.pc = "raised", !.nint_im = n, !.rim = r,
                                       !.err = "PrecisionExhausted"]
               ELSE gip' = [gip EXCEPT !.pc = "returned", !.nint_im = n,
                                       !.rim = r,
                                       !.im = from_int(n + GipAdjust(gip.no, e[2])),
                                       !.im_acc = e[4]]
    /\ UNCHANGED gipOthers

\* An evaluation of expr or of a residual raises.
GipChildRaises ==
    /\ gip.pc \in {"reeval", "re", "im"}
    /\ \E e \in ExcSet : gip' = [gip EXCEPT !.pc = "raised", !.err = e]
    /\ UNCHANGED gipOthers

\* The rest of evalf for the floor or ceiling node, once get_integer_part
\* has returned: chop_parts under 'chop', check_target under 'strict'.
GipFinish ==
    /\ gip.pc = "returned"
    /\ LET r0 == <<gip.re, gip.im, gip.re_acc, gip.im_acc>>
           r == IF gip.chop THEN chop_parts(r0, gip.prec) ELSE r0 IN
       IF gip.strict /\ check_target(r, gip.prec)
       THEN gip' = [gip EXCEPT !.pc = "rejected", !.out = r,
                               !.err = "PrecisionExhausted"]
       ELSE gip' = [gip EXCEPT !.pc = "accepted", !.out = r]
    /\ UNCHANGED gipOthers

NextInt ==
    \/ GipCall
    \/ GipReeval
    \/ GipRe
    \/ GipIm
    \/ GipChildRaises
    \/ GipFinish

(***************************************************************************)
(* add_terms: the guarded summation                                        *)
(***************************************************************************)

\* normalize(sign, man, exp, bc, prec, round_nearest): the mantissa rounded
\* to prec bits, half to even, and stripped of its trailing zero bits.
normalize(sign, man, exp, bc, prec) ==
    LET n == bc - prec
        t == man \div 2 ^ (n - 1)
        low == man % 2 ^ (n - 1)
        up == (t % 2 = 1) /\ ((t \div 2) % 2 = 1 \/ low # 0) IN
    IF man = 0 THEN fzero
    ELSE IF n > 0
    THEN MakeMpf(sign, (t \div 2) + (IF up THEN 1 ELSE 0), exp + n)
    ELSE MakeMpf(sign, man, exp)

\* The signed mantissa of a term.
SignedMan(x) == IF x[1] = 1 THEN -x[2] ELSE x[2]

\* The pass in which a dropped term leaves absolute_error as it was.
AddTermDroppedUncounted(acc, term, prec) ==
    LET x == term[1]
        man == SignedMan(x)
        exp == x[3]
        err == Max(acc[3], x[4] + exp - term[2])
        delta == exp - acc[2] IN
    IF ~Present(x) THEN acc
    ELSE IF exp >= acc[2]
    THEN IF delta > 4 * prec
         THEN <<man, exp, err>>
         ELSE <<acc[1] + man * 2 ^ delta, acc[2], err>>
    ELSE IF -delta > 4 * prec
         THEN acc
         ELSE <<acc[1] * 2 ^ (-delta) + man, exp, err>>

\* One pass of the loop of add_terms over the term <<x, accuracy>>, from the
\* running <<sum_man, sum_exp, absolute_error>>.
AddTerm(acc, term, prec) ==
    LET x == term[1]
        man == SignedMan(x)
        exp == x[3]
        err == Max(acc[3], x[4] + exp - term[2])
        delta == exp - acc[2] IN
    IF ~Present(x) THEN acc
    ELSE IF exp >= acc[2]
    THEN IF delta > 4 * prec
         THEN <<man, exp, err>>
         ELSE <<acc[1] + man * 2 ^ delta, acc[2], err>>
    ELSE IF -delta > 4 * prec
         THEN <<acc[1], acc[2], err>>
         ELSE <<acc[1] * 2 ^ (-delta) + man, exp, err>>

\* The loop over the first k terms, from sum_man, sum_exp = 0, 0 and
\* absolute_error = MINUS_INF.
RECURSIVE AddLoop(_, _, _)
AddLoop(terms, k, prec) ==
    IF k = 0 THEN <<0, 0, MINUS_INF>>
    ELSE AddTerm(AddLoop(terms, k - 1, prec), terms[k], prec)

\* add_terms(terms, prec, target_prec): <<value, accuracy>>
add_terms(terms, prec, target_prec) ==
    LET acc == AddLoop(terms, Len(terms), prec)
        sum_man == acc[1]
        sum_exp == acc[2]
        absolute_error == acc[3]
        sum_bc == bitcount(Abs(sum_man))
        sum_accuracy == sum_exp + sum_bc - absolute_error IN
    IF Len(terms) = 1
    THEN IF terms[1] = None THEN <<fshift_fone(target_prec), -1>> ELSE terms[1]
    ELSE IF absolute_error = MINUS_INF THEN <<None, NoAcc>>
    ELSE IF sum_man = 0 THEN <<fshift_fone(absolute_error), -1>>
    ELSE <<normalize(IF sum_man < 0 THEN 1 ELSE 0, Abs(sum_man), sum_exp,
                     sum_bc, target_prec),
           sum_accuracy>>

\* The model's bounds on a call of add_terms: the working precision, scaled
\* down so that 4*prec stays a small shift, and the length of the list.
MaxTermPrec == 2
MaxTerms == 3

\* The terms of the model: +-1, +-3 and +-33 times 2^-6, 2^0 and 2^5, each
\* with an accuracy of -1 or 6 bits, and the absent term.
TermMans == {1, 3, 33}
TermExps == {-6, 0, 5}
TermAccSet == {-1, 6}
AbsentTerm == <<None, NoAcc>>
TermSet ==
    {<<<<s, m, e, bitcount(m)>>, a>> :
        s \in {0, 1}, m \in TermMans, e \in TermExps, a \in TermAccSet}
    \cup {AbsentTerm}

TermLists == UNION {[1..n -> TermSet] : n \in 1..MaxTerms}

AtIdle == at = [pc |-> "idle", terms |-> <<>>, prec |-> 1, target_prec |-> 1,
                out |-> <<None, NoAcc>>]

\* add_terms is called.
AtCall ==
    /\ at.pc = "idle"
    /\ \E terms \in TermLists, prec \in 1..MaxTermPrec, target \in 1..MaxTermPrec :
          /\ target <= prec
          /\ at' = [pc |-> "called", terms |-> terms, prec |-> prec,
                    target_prec |-> target, out |-> <<None, NoAcc>>]
    /\ UNCHANGED atOthers

\* add_terms returns.
AtReturn ==
    /\ at.pc = "called"
    /\ at' = [at EXCEPT !.pc = "returned",
                        !.out = add_terms(at.terms, at.prec, at.target_prec)]
    /\ UNCHANGED atOthers

NextTerms ==
    \/ AtCall
    \/ AtReturn

(***************************************************************************)
(* Powers and special functions: the accuracy they report                  *)
(***************************************************************************)

\* The accuracies finalize_complex(re, im, prec) gives two parts of sizes
\* size_re and size_im: <<re_acc, im_acc>>.
finalize_complex_acc_flat(size_re, size_im, prec) == <<prec, prec>>

finalize_complex_acc(size_re, size_im, prec) ==
    IF size_re > size_im
    THEN <<prec, prec + Min(-(size_re - size_im), 0)>>
    ELSE <<prec + Min(-(size_im - size_re), 0), prec>>

\* int(math.log(abs(p), 2)) for p # 0
RECURSIVE IntLog2(_)
IntLog2(p) == IF Abs(p) <= 1 THEN 0 ELSE 1 + IntLog2(Abs(p) \div 2)

\* What evalf(arg, asked, options) may give the caller: which parts are
\* present, and one accuracy for them: -1 (a sum that gave up), just short
\* of the precision asked, or the precision asked.
ArgAccSet(asked) == {-1, asked - 1, asked}
ArgShapes == {"re", "im", "both", "none"}
SizeSet == {-3, 0, 3, 12}
PartSizeSet == {0, 3}
GapSet == {-1, 0, 15, 40, 100, 400}
IntExpSet == {-3, -2, -1, 0, 1, 2, 3, 8}

\* The values a purely real or purely imaginary base evaluates to.
PowValues == {MakeMpf(s, m, e) : s \in {0, 1}, m \in {1, 3}, e \in {-2, 1}}

\* fpowi(x, p, prec) for x # 0: the integer power of an mpf value, rounded
\* toward zero to prec bits; a negative p gives the reciprocal power.
fpowi(x, p, prec) ==
    LET sign == IF p % 2 = 0 THEN 0 ELSE x[1]
        man == x[2] ^ Abs(p)
        exp == x[3] * Abs(p)
        k == prec + bitcount(man) IN
    IF p >= 0
    THEN fmul(<<sign, man, exp, bitcount(man)>>, fone, prec)
    ELSE fmul(<<sign, 2 ^ k \div man, (-k) - exp, 0>>, fone, prec)

pow_imaginary_unsigned(z, p, target_prec) ==
    IF p % 2 = 0
    THEN <<z, None, target_prec, NoAcc>>
    ELSE <<None, z, NoAcc, target_prec>>

\* (x*I)**n = I**n * x**n: the result for the power z = x**p
pow_imaginary(z, p, target_prec) ==
    LET case == p % 4 IN
    IF case = 0 THEN <<z, None, target_prec, NoAcc>>
    ELSE IF case = 1 THEN <<None, z, NoAcc, target_prec>>
    ELSE IF case = 2 THEN <<fneg(z), None, target_prec, NoAcc>>
    ELSE <<None, fneg(z), NoAcc, target_prec>>

UnIdle == un = [pc |-> "idle", op |-> "none", prec |-> 0, asked |-> 0, a |-> 0,
                re_acc |-> NoAcc, im_acc |-> NoAcc, xprec |-> 0, xsize |-> 0,
                gap |-> 0, maxprec |-> NoMaxprec, exc |-> "none",
                form |-> "none", p |-> 0, xre |-> None, xim |-> None,
                re |-> None, im |-> None]

UnFree == un.pc = "idle"

UnCalled(op, prec, asked, a) ==
    [pc |-> "returned", op |-> op, prec |-> prec, asked |-> asked, a |-> a,
     re_acc |-> NoAcc, im_acc |-> NoAcc, xprec |-> 0, xsize |-> 0,
     gap |-> 0, maxprec |-> NoMaxprec, exc |-> "none",
     form |-> "none", p |-> 0, xre |-> None, xim |-> None,
     re |-> None, im |-> None]

\* evalf_atan(v, prec, options)
EvalfAtan ==
    /\ UnFree
    /\ \E prec \in PrecSet, shape \in ArgShapes :
       \E a \in ArgAccSet(prec + 5) :
          LET u == UnCalled("atan", prec, prec + 5, a) IN
          un' = IF shape \in {"im", "both"}
                THEN [u EXCEPT !.pc = "raised", !.exc = "NotImplementedError"]
                ELSE [u EXCEPT !.re_acc = prec]
    /\ UNCHANGED unOthers

\* evalf_log(expr, prec, options): a complex argument goes through
\* log(abs(arg)); a negative one gets the imaginary term pi.
EvalfLog ==
    /\ UnFree
    /\ \E prec \in PrecSet, shape \in ArgShapes, negative \in BOOLEAN :
       \E a \in ArgAccSet(prec + 10) :
          LET u == UnCalled("log", prec, prec + 10, a) IN
          un' = IF shape \in {"im", "both"} \/ negative
                THEN [u EXCEPT !.re_acc = prec, !.im_acc = prec]
                ELSE [u EXCEPT !.re_acc = prec]
    /\ UNCHANGED unOthers

\* evalf_pow(v, prec, options), exp.is_Integer: the base is evaluated at
\* prec + int(log2|p|) + 5 bits.  A base with no part at all reaches
\* mpc_pow_int as (None, None), which raises.  The parts of a general
\* complex power are known by their sizes only.
EvalfPowInt ==
    /\ UnFree
    /\ \E target_prec \in PrecSet, p \in IntExpSet,
          xre \in PowValues \cup {None}, xim \in PowValues \cup {None},
          size_re \in PartSizeSet, size_im \in PartSizeSet :
       LET asked == target_prec + IntLog2(p) + 5 IN
       \E a \in ArgAccSet(asked) :
          LET u == [UnCalled("pow", target_prec, asked, a)
                        EXCEPT !.form = "int", !.p = p]
              v == [u EXCEPT !.xre = xre, !.xim = xim]
              fc == finalize_complex_acc(size_re, size_im, target_prec)
              r == pow_imaginary(fpowi(xim, p, target_prec), p, target_prec) IN
          un' = IF p = 0
                THEN [u EXCEPT !.asked = 0, !.a = 0, !.re = fone,
                               !.re_acc = target_prec]
                ELSE IF Present(xre) /\ ~Present(xim)
                THEN [v EXCEPT !.re = fpowi(xre, p, target_prec),
                               !.re_acc = target_prec]
                ELSE IF Present(xim) /\ ~Present(xre)
                THEN [v EXCEPT !.re = r[1], !.im = r[2],
                               !.re_acc = r[3], !.im_acc = r[4]]
                ELSE IF Present(xre) /\ Present(xim)
                THEN [v EXCEPT !.re_acc = fc[1], !.im_acc = fc[2]]
                ELSE [v EXCEPT !.pc = "raised", !.exc = "TypeError"]
    /\ UNCHANGED unOthers

\* evalf_pow(v, prec, options), any other exponent: the exponent is
\* evaluated at prec + 10 bits (and again when its size is above 5), then
\* the base at the same precision.
EvalfPowReal ==
    /\ UnFree
    /\ \E target_prec \in PrecSet, ysize \in {0, 12}, yim \in BOOLEAN,
          base_is_e \in BOOLEAN, shape \in ArgShapes, negative \in BOOLEAN,
          size_re \in PartSizeSet, size_im \in PartSizeSet :
       LET prec == IF ysize > 5 THEN target_prec + 10 + ysize
                   ELSE target_prec + 10 IN
       \E a \in ArgAccSet(prec) :
          LET u == UnCalled("pow", target_prec, prec, a)
              fc == finalize_complex_acc(size_re, size_im, target_prec) IN
          un' = IF yim
                THEN IF base_is_e
                     THEN [u EXCEPT !.re_acc = fc[1], !.im_acc = fc[2]]
                     ELSE [u EXCEPT !.pc = "raised",
                                    !.exc = "NotImplementedError"]
                ELSE IF shape \in {"im", "both"}
                THEN [u EXCEPT !.re_acc = fc[1], !.im_acc = fc[2]]
                ELSE IF negative /\ shape = "re"
                THEN [u EXCEPT !.im_acc = target_prec]
                ELSE [u EXCEPT !.re_acc = target_prec]
    /\ UNCHANGED unOthers

\* evalf_trig(v, prec, options) up to its loop: the argument is evaluated at
\* prec + 20 bits, and again at prec + xsize when xsize >= 10.
EvalfTrig ==
    /\ UnFree
    /\ \E prec \in PrecSet, shape \in ArgShapes, xsize \in SizeSet,
          is_cos \in BOOLEAN, maxprec \in {NoMaxprec, WithMaxprec(39)} :
       LET xprec == IF xsize >= 10 THEN prec + xsize ELSE prec + 20 IN
       \E a \in ArgAccSet(xprec) :
          LET u == [UnCalled("trig", prec, xprec, a) EXCEPT
                        !.maxprec = maxprec] IN
          un' = IF shape \in {"im", "both"}
                THEN [u EXCEPT !.pc = "raised", !.exc = "NotImplementedError"]
                ELSE IF shape = "none"
                THEN IF is_cos THEN [u EXCEPT !.re_acc = prec] ELSE u
                ELSE IF xsize < 1
                THEN [u EXCEPT !.asked = prec + 20, !.re_acc = prec]
                ELSE [u EXCEPT !.pc = "loop", !.xprec = xprec,
                               !.xsize = xsize]
    /\ UNCHANGED unOthers

\* The pass that returns an insufficient accuracy without looking at the
\* ceiling.
TrigIterateGivesUpAtOnce ==
    /\ un.pc = "loop"
    /\ \E gap \in GapSet :
       LET accuracy == (un.xprec - un.xsize) - gap IN
       IF accuracy < un.prec
       THEN un' = [un EXCEPT !.pc = "returned", !.gap = gap,
                             !.re_acc = accuracy]
       ELSE un' = [un EXCEPT !.pc = "returned", !.gap = gap,
                             !.re_acc = un.prec]
    /\ UNCHANGED unOthers

\* One pass of the loop of evalf_trig: y is computed, with gap = -fastlog(y).
TrigIterate ==
    /\ un.pc = "loop"
    /\ \E gap \in GapSet :
       LET accuracy == (un.xprec - un.xsize) - gap IN
       IF accuracy < un.prec
       THEN IF un.xprec > OptGet(un.maxprec, DEFAULT_MAXPREC)
            THEN un' = [un EXCEPT !.pc = "returned", !.gap = gap,
                                  !.re_acc = accuracy]
            ELSE \E a \in ArgAccSet(un.xprec + gap) :
                    un' = [un EXCEPT !.xprec = un.xprec + gap, !.gap = gap,
                                     !.asked = un.xprec + gap, !.a = a]
       ELSE un' = [un EXCEPT !.pc = "returned", !.gap = gap,
                             !.re_acc = un.prec]
    /\ UNCHANGED unOthers

\* The evaluation of the argument raises, and the evaluator lets it through.
ArgRaises ==
    /\ un.pc = "loop"
    /\ \E e \in ExcSet : un' = [un EXCEPT !.pc = "raised", !.exc = e]
    /\ UNCHANGED unOthers

NextFunc ==
    \/ EvalfAtan
    \/ EvalfLog
    \/ EvalfPowInt
    \/ EvalfPowReal
    \/ EvalfTrig
    \/ TrigIterate
    \/ ArgRaises

(***************************************************************************)
(* evalf_symbol and its cache                                              *)
(***************************************************************************)

\* options['subs'] of the model: x is bound to an expression in y and z, y
\* to an expression in z, z to a nonzero mpf and w to the mpf zero.
SymNames == {"x", "y", "z", "w"}
IsMpf(x) == x \in {"z", "w"}
Mentions(x) ==
    IF x = "x" THEN {"y", "z", "w"} ELSE IF x = "y" THEN {"z", "w"} ELSE {}
SymPrecSet == {10, 25, 40}

\* cache.get(x.name, (None, MINUS_INF)): the cache is a dictionary from names
\* to <<v, prec>>, and v is written <<name, p>>: the binding of name,
\* evaluated at p bits.
CacheGet(cache, name) ==
    IF name \in DOMAIN cache THEN cache[name] ELSE <<None, MINUS_INF>>

\* cache[x.name] = (v, prec)
CachePut(cache, name, v, prec) ==
    [n \in DOMAIN cache \cup {name} |->
        IF n = name THEN <<v, prec>> ELSE cache[n]]

\* The test under which the cached result is returned.
CacheHitAnyEntry(cached_prec, prec) == cached_prec > MINUS_INF

CacheHit(cached_prec, prec) == cached_prec >= prec

\* The deepest nesting of bindings: x asks for y.
SymDepth == 2

NoRequest == [kind |-> "none", name |-> "none", prec |-> 0, v |-> None,
              had |-> <<None, MINUS_INF>>]

SymIdle == sym = [cache |-> <<>>, pending |-> <<>>, raising |-> FALSE,
                  last |-> NoRequest]

\* Who may call evalf_symbol(x, prec, options) now: the top-level call, or
\* the evaluation of a binding that mentions x.
CanRequest(x) ==
    /\ ~sym.raising
    /\ Len(sym.pending) < SymDepth
    /\ sym.pending # <<>> => x \in Mentions(sym.pending[Len(sym.pending)].name)

\* evalf_symbol(x, prec, options), val an mpf: no cache is involved.
SymbolMpf ==
    /\ \E x \in SymNames, prec \in SymPrecSet :
          /\ CanRequest(x)
          /\ IsMpf(x)
          /\ sym' = [sym EXCEPT !.last =
                        [kind |-> "mpf", name |-> x, prec |-> prec,
                         v |-> IF x = "w" THEN None ELSE <<x, prec>>,
                         had |-> CacheGet(sym.cache, x)]]
    /\ UNCHANGED symOthers

\* evalf_symbol(x, prec, options), cached_prec >= prec: return cached.
SymbolCached ==
    /\ \E x \in SymNames, prec \in SymPrecSet :
          LET c == CacheGet(sym.cache, x) IN
          /\ CanRequest(x)
          /\ ~IsMpf(x)
          /\ CacheHit(c[2], prec)
          /\ sym' = [sym EXCEPT !.last =
                        [kind |-> "cached", name |-> x, prec |-> prec,
                         v |-> c[1], had |-> c]]
    /\ UNCHANGED symOthers

\* evalf_symbol(x, prec, options), otherwise: evalf(sympify(val), prec,
\* options) is entered.
SymbolEvaluate ==
    /\ \E x \in SymNames, prec \in SymPrecSet :
          LET c == CacheGet(sym.cache, x) IN
          /\ CanRequest(x)
          /\ ~IsMpf(x)
          /\ ~CacheHit(c[2], prec)
          /\ sym' = [sym EXCEPT
                        !.pending = Append(@, [name |-> x, prec |-> prec,
                                               had |-> c]),
                        !.last = NoRequest]
    /\ UNCHANGED symOthers

\* evalf(sympify(val), prec, options) returns v; cache[x.name] = (v, prec).
SymbolStore ==
    /\ ~sym.raising
    /\ sym.pending # <<>>
    /\ LET f == sym.pending[Len(sym.pending)]
           v == <<f.name, f.prec>> IN
       sym' = [sym EXCEPT
                  !.cache = CachePut(@, f.name, v, f.prec),
                  !.pending = SubSeq(@, 1, Len(@) - 1),
                  !.last = [kind |-> "evaluated", name |-> f.name,
                            prec |-> f.prec, v |-> v, had |-> f.had]]
    /\ UNCHANGED symOthers

\* evalf(sympify(val), prec, options) raises: evalf_symbol stores nothing,
\* and neither does any request above it.
SymbolRaises ==
    /\ sym.pending # <<>>
    /\ LET f == sym.pending[Len(sym.pending)] IN
       sym' = [sym EXCEPT
                  !.pending = SubSeq(@, 1, Len(@) - 1),
                  !.raising = Len(sym.pending) > 1,
                  !.last = [kind |-> "raised", name |-> f.name,
                            prec |-> f.prec, v |-> None, had |-> f.had]]
    /\ UNCHANGED symOthers

NextSymbol ==
    \/ SymbolMpf
    \/ SymbolCached
    \/ SymbolEvaluate
    \/ SymbolStore
    \/ SymbolRaises

(***************************************************************************)
(* The leaf evaluators of the table                                        *)
(***************************************************************************)

fhalf == <<0, 1, -1, 1>>
fnone == <<1, 1, 0, 1>>

\* from_int(n, prec): the integer rounded to prec bits
from_int_prec(n, prec) ==
    normalize(IF n < 0 THEN 1 ELSE 0, Abs(n), 0, bitcount(Abs(n)), prec)

\* from_rational(p, q, prec): p/q rounded to prec bits; the quotient is
\* taken with extra bits and a sticky bit for the remainder.
from_rational(p, q, prec) ==
    LET extra == Max(prec - bitcount(Abs(p)) + bitcount(q) + 5, 0)
        quot == (Abs(p) * 2 ^ extra) \div q
        rem == (Abs(p) * 2 ^ extra) % q
        man == IF rem # 0 THEN 2 * quot + 1 ELSE quot
        exp == IF rem # 0 THEN -extra - 1 ELSE -extra IN
    normalize(IF p < 0 THEN 1 ELSE 0, man, exp, bitcount(man), prec)

\* The exact numbers of the model: a leaf is <<kind, p, q>>.
ExactLeaves ==
    {<<"Integer", p, 1>> : p \in {-3, 5, 1001}}
    \cup {<<"Rational", 1, 3>>, <<"Rational", -2, 5>>, <<"Rational", 1, 64>>}
    \cup {<<"Zero", 0, 1>>, <<"One", 1, 1>>, <<"Half", 1, 2>>,
          <<"NegativeOne", -1, 1>>, <<"ImaginaryUnit", 0, 1>>}

\* The entry of evalf_table for the kind of x, applied at prec.
LeafAccuracyUnknown(x, prec) == <<None, None, -1, NoAcc>>

Leaf(x, prec) ==
    CASE x[1] = "Integer" -> <<from_int_prec(x[2], prec), None, prec, NoAcc>>
      [] x[1] = "Rational" -> <<from_rational(x[2], x[3], prec), None, prec, NoAcc>>
      [] x[1] = "Zero" -> <<None, None, prec, NoAcc>>
      [] x[1] = "One" -> <<fone, None, prec, NoAcc>>
      [] x[1] = "Half" -> <<fhalf, None, prec, NoAcc>>
      [] x[1] = "NegativeOne" -> <<fnone, None, prec, NoAcc>>
      [] x[1] = "ImaginaryUnit" -> <<None, fone, NoAcc, prec>>
      [] OTHER -> NoResult

\* evalf(x, prec, options) for a leaf x: the table's entry, then chop_parts
\* under 'chop'.  (check_target, under 'strict', is applied by the caller of
\* this operator.)
LeafChopped(x, prec, chop) ==
    IF chop THEN chop_parts(Leaf(x, prec), prec) ELSE Leaf(x, prec)

(***************************************************************************)
(* Basic_evalf: the top-level entry point                                  *)
(***************************************************************************)

\* dps_to_prec(n): max(1, round((n+1) * log2(10)))
dps_to_prec(n) == Max(1, ((n + 1) * 33219 + 5000) \div 10000)

\* The digits asked for, the 'maxprec' option in digits (0: not given), and
\* the expressions: an exact leaf, or a tree of operators.
DigitSet == {0, 1, 2, 3}
MaxprecDigits == {0, 4, 12}
Tree == <<"tree", 0, 1>>
TopExprs == ExactLeaves \cup {Tree}
TopExcSet == ExcSet \cup {"KeyError"}

\* What lies between a node that raises and Basic_evalf: dispatcher frames
\* and operators, innermost last.
MaxNest == 2
Constructs == {"evalf", "evalf_add", "do_integral", "get_complex_part"}
NestSet == UNION {[1..k -> Constructs] : k \in 0..MaxNest}

\* The except clauses below Basic_evalf: only the dispatcher has one, and it
\* names KeyError.
CatchesNotImplementedToo(c, e) ==
    c = "evalf" /\ e \in {"KeyError", "NotImplementedError"}

Catches(c, e) == c = "evalf" /\ e = "KeyError"

\* p = max(min(prec, re_acc), 1)
PrecisionTag(prec, acc) == Max(Min(prec, acc), 1)

NoOut == [kind |-> "none", re |-> None, im |-> None, re_p |-> 0, im_p |-> 0,
          err |-> "none"]

\* The Real numbers Basic_evalf builds from a result.
Number(r, prec) ==
    [kind |-> "number", re |-> r[1], im |-> r[2],
     re_p |-> IF Present(r[1]) THEN PrecisionTag(prec, r[3]) ELSE 0,
     im_p |-> IF Present(r[2]) THEN PrecisionTag(prec, r[4]) ELSE 0,
     err |-> "none"]

Raised(e) == [NoOut EXCEPT !.kind = "raised", !.err = e]

TopIdle == top = [pc |-> "idle", n |-> 0, prec |-> 0, chop |-> FALSE,
                  strict |-> FALSE, maxprec |-> 0, x |-> Tree, nest |-> <<>>,
                  exc |-> "none", caught |-> {}, plain |-> "none",
                  out |-> NoOut]

\* Basic_evalf(x, n, **options) up to its call of evalf(x, prec+4, options).
BasicCall ==
    /\ top.pc = "idle"
    /\ \E n \in DigitSet, x \in TopExprs, chop \in BOOLEAN, strict \in BOOLEAN,
          mpd \in MaxprecDigits :
          top' = [top EXCEPT
                     !.pc = "evalf", !.n = n, !.prec = dps_to_prec(n),
                     !.x = x, !.chop = chop, !.strict = strict,
                     !.maxprec = IF mpd = 0
                                 THEN Max(dps_to_prec(n), DEFAULT_MAXPREC)
                                 ELSE (mpd * 33219) \div 10000]
    /\ UNCHANGED topOthers

\* evalf(x, prec+4, options) for a leaf x, and the Real built from it.
EvalfLeaf ==
    /\ top.pc = "evalf"
    /\ top.x # Tree
    /\ LET r == LeafChopped(top.x, top.prec + 4, top.chop) IN
       IF top.strict /\ check_target(r, top.prec + 4)
       THEN top' = [top EXCEPT !.pc = "done",
                               !.out = Raised("PrecisionExhausted")]
       ELSE top' = [top EXCEPT !.pc = "done", !.out = Number(r, top.prec)]
    /\ UNCHANGED topOthers

\* evalf(x, prec+4, options) for a tree returns r.
EvalfTreeReturns ==
    /\ top.pc = "evalf"
    /\ top.x = Tree
    /\ \E r \in DispResults(top.prec + 4) :
          /\ DispWellFormed(r)
          /\ top' = [top EXCEPT !.pc = "done", !.out = Number(r, top.prec)]
    /\ UNCHANGED topOthers

\* A node of the tree raises e, under the constructs nest.
EvalfTreeRaises ==
    /\ top.pc = "evalf"
    /\ top.x = Tree
    /\ \E e \in TopExcSet, nest \in NestSet :
          top' = [top EXCEPT !.pc = "unwinding", !.exc = e, !.nest = nest]
    /\ UNCHANGED topOthers

\* The exception reaches the innermost construct: the dispatcher turns a
\* KeyError into the node's own value, and the evaluation goes on, or into
\* NotImplementedError; every other construct, and the dispatcher for every
\* other exception, lets it through.
TopUnwind ==
    /\ top.pc = "unwinding"
    /\ top.nest # <<>>
    /\ LET c == top.nest[Len(top.nest)]
           rest == SubSeq(top.nest, 1, Len(top.nest) - 1) IN
       IF Catches(c, top.exc)
       THEN \/ top' = [top EXCEPT !.pc = "evalf", !.exc = "none",
                                  !.nest = <<>>,
                                  !.caught = @ \cup {<<c, top.exc>>}]
            \/ top' = [top EXCEPT !.exc = "NotImplementedError",
                                  !.nest = rest,
                                  !.caught = @ \cup {<<c, top.exc>>}]
       ELSE top' = [top EXCEPT !.nest = rest]
    /\ UNCHANGED topOthers

\* The exception leaves evalf(x, prec+4, options): Basic_evalf has
\* 'except NotImplementedError' and nothing else.
BasicExcept ==
    /\ top.pc = "unwinding"
    /\ top.nest = <<>>
    /\ IF top.exc = "NotImplementedError"
       THEN top' = [top EXCEPT !.pc = "plain", !.exc = "none",
                               !.caught = @ \cup {<<"Basic_evalf", top.exc>>}]
       ELSE top' = [top EXCEPT !.pc = "done", !.out = Raised(top.exc),
                               !.exc = "none"]
    /\ UNCHANGED topOthers

\* v = x._eval_evalf(prec): None gives x back; a number is normalized by
\* evalf(v, prec, options); whatever that evaluation raises gives v back.
BasicPlain ==
    /\ top.pc = "plain"
    /\ \/ top' = [top EXCEPT !.pc = "done", !.plain = "None",
                             !.out = [NoOut EXCEPT !.kind = "unevaluated"]]
       \/ \E v \in DispValues :
             LET r0 == <<v, None, top.prec, NoAcc>>
                 r == IF top.chop THEN chop_parts(r0, top.prec) ELSE r0 IN
             top' = [top EXCEPT !.pc = "done", !.plain = "number",
                                !.out = Number(r, top.prec)]
       \/ top' = [top EXCEPT !.pc = "done", !.plain = "symbolic",
                             !.out = [NoOut EXCEPT !.kind = "plain"]]
    /\ UNCHANGED topOthers

NextBasic ==
    \/ BasicCall
    \/ EvalfLeaf
    \/ EvalfTreeReturns
    \/ EvalfTreeRaises
    \/ TopUnwind
    \/ BasicExcept
    \/ BasicPlain

(***************************************************************************)
(* cmul: the complex cross-multiplication                                  *)
(***************************************************************************)

\* The two lists of terms cmul hands to add_terms, for the real and for the
\* imaginary part of (a + b i)(c + d i); a, b, c and d are <<value, accuracy>>.
cmul_terms(a, b, c, d, prec) ==
    LET A == fmul(a[1], c[1], prec)
        Aacc == Min(a[2], c[2])
        B == fmul(fneg(b[1]), d[1], prec)
        Bacc == Min(b[2], d[2])
        C == fmul(a[1], d[1], prec)
        Cacc == Min(a[2], d[2])
        D == fmul(b[1], c[1], prec)
        Dacc == Min(b[2], c[2]) IN
    << <<<<A, Aacc>>, <<B, Bacc>>>>, <<<<C, Cacc>>, <<D, Cacc>>>> >>

\* cmul(a, b, c, d, prec, target_prec): <<re, im, re_accuracy, im_accuracy>>
cmul(a, b, c, d, prec, target_prec) ==
    LET t == cmul_terms(a, b, c, d, prec)
        re == add_terms(t[1], prec, target_prec)
        im == add_terms(t[2], prec, target_prec) IN
    <<re[1], im[1], re[2], im[2]>>

\* The parts of the model's complex numbers: +-1 and +-3, each with an
\* accuracy of 2 or 9 bits, multiplied at 8 bits for a target of 3.
CmulAccSet == {2, 9}
CmulParts ==
    {<<<<s, m, 0, bitcount(m)>>, acc>> : s \in {0, 1}, m \in {1, 3},
                                         acc \in CmulAccSet}
CmulPrecSet == {8}
CmulTargetSet == {3}

CmIdle == cm = [pc |-> "idle", a |-> <<None, NoAcc>>, b |-> <<None, NoAcc>>,
                c |-> <<None, NoAcc>>, d |-> <<None, NoAcc>>, prec |-> 1,
                target_prec |-> 1, re_terms |-> <<>>, im_terms |-> <<>>,
                out |-> <<None, None, NoAcc, NoAcc>>]

\* cmul is called.
CmulCall ==
    /\ cm.pc = "idle"
    /\ \E a \in CmulParts, b \in CmulParts, c \in CmulParts, d \in CmulParts,
          prec \in CmulPrecSet, target \in CmulTargetSet :
          cm' = [cm EXCEPT !.pc = "called", !.a = a, !.b = b, !.c = c,
                           !.d = d, !.prec = prec, !.target_prec = target]
    /\ UNCHANGED cmOthers

\* cmul returns.
CmulReturn ==
    /\ cm.pc = "called"
    /\ cm' = [cm EXCEPT
                !.pc = "returned",
                !.re_terms = cmul_terms(cm.a, cm.b, cm.c, cm.d, cm.prec)[1],
                !.im_terms = cmul_terms(cm.a, cm.b, cm.c, cm.d, cm.prec)[2],
                !.out = cmul(cm.a, cm.b, cm.c, cm.d, cm.prec, cm.target_prec)]
    /\ UNCHANGED cmOthers

NextCmul ==
    \/ CmulCall
    \/ CmulReturn

(***************************************************************************)
(* evalf_mul                                                               *)
(***************************************************************************)

\* The model's bound on len(v.args), and the precisions asked of a product.
MaxFactors == 5
MulPrecSet == {1}

\* What evalf(arg, prec, options) gives for a factor: +-2 or +-1025/1024
\* as a real or as an imaginary part, with an accuracy of 0 or 7 bits; the
\* exact zero; or the complex number 3 - i, either with 7 bits in both parts
\* or with less in the imaginary than in the real part.
MulAccSet == {0, 7}
MulValues == {<<s, 1, 1, 1>> : s \in {0, 1}} \cup {<<s, 1025, -10, 11>> : s \in {0, 1}}
ZeroResult == <<None, None, NoAcc, NoAcc>>
ComplexResult == <<MakeMpf(0, 3, 0), fnone, 7, 7>>
UnevenComplexResult == <<MakeMpf(0, 3, 0), fnone, 0, -1>>
MulResults ==
    {<<x, None, a, NoAcc>> : x \in MulValues, a \in MulAccSet}
    \cup {<<None, x, NoAcc, a>> : x \in MulValues, a \in MulAccSet}
    \cup {ZeroResult, ComplexResult, UnevenComplexResult}

\* The largest product of mantissas the history keeps exactly: that of three
\* wide factors.
Huge == 1025 * 1025 * 1025

\* mul.k, mul.s, mul.mag, mul.sumexp and mul.accs are the history of the
\* factors evaluated so far: how many were imaginary, how many negative, the
\* exact product of their mantissas (-1 beyond Huge), the sum of their
\* exponents and the accuracies they came with.  mul.z is the product of
\* line 359, before the multiplication by i.
MulIdle == mul = [pc |-> "idle", target_prec |-> 1, prec |-> 1, n |-> 0,
                  i |-> 0, direction |-> 0, man |-> 1, exp |-> 0, bc |-> 1,
                  acc |-> 1, complex_factors |-> <<>>,
                  k |-> 0, s |-> 0, mag |-> 1, sumexp |-> 0, accs |-> {},
                  z |-> ZeroResult, out |-> ZeroResult]

\* evalf_mul is called on a product of n factors.
MulCall ==
    /\ mul.pc = "idle"
    /\ \E n \in 1..MaxFactors, prec \in MulPrecSet :
          mul' = [mul EXCEPT !.pc = "loop", !.target_prec = prec,
                             !.acc = prec, !.prec = prec + n + 5, !.n = n]
    /\ UNCHANGED mulOthers

\* One pass of the loop over a purely real or purely imaginary factor x of
\* accuracy a.  bc is the sum of the factors' bit counts: the shift of the
\* mantissa leaves it as it is.
MulPure(x, a, imaginary) ==
    LET direction == mul.direction + (IF imaginary THEN 1 ELSE 0) + 2 * x[1]
        man == mul.man * x[2]
        exp == mul.exp + x[3]
        bc == mul.bc + x[4]
        cut == bc > 3 * mul.prec IN
    [mul EXCEPT
        !.i = mul.i + 1,
        !.direction = direction,
        !.man = IF cut THEN man \div 2 ^ mul.prec ELSE man,
        !.exp = IF cut THEN exp + mul.prec ELSE exp,
        !.bc = bc,
        !.acc = Min(mul.acc, a),
        !.k = mul.k + (IF imaginary THEN 1 ELSE 0),
        !.s = mul.s + x[1],
        !.mag = IF mul.mag = -1 \/ mul.mag > Huge \div x[2]
                THEN -1 ELSE mul.mag * x[2],
        !.sumexp = mul.sumexp + x[3],
        !.accs = mul.accs \cup {a}]

\* The loop evaluates the next factor.
MulFactor ==
    /\ mul.pc = "loop"
    /\ mul.i < mul.n
    /\ \E r \in MulResults :
          mul' = IF Present(r[1]) /\ Present(r[2])
                 THEN [mul EXCEPT !.i = mul.i + 1,
                          !.complex_factors = Append(mul.complex_factors, r)]
                 ELSE IF Present(r[1]) THEN MulPure(r[1], r[3], FALSE)
                 ELSE IF Present(r[2]) THEN MulPure(r[2], r[4], TRUE)
                 ELSE [mul EXCEPT !.pc = "returned", !.out = ZeroResult]
    /\ UNCHANGED mulOthers

\* The complex factors from the j-th on multiplied onto <<re, im, re_acc,
\* im_acc>>.
RECURSIVE MulComplex(_, _, _, _, _)
MulComplex(z, factors, j, prec, target_prec) ==
    IF j > Len(factors) THEN z
    ELSE MulComplex(cmul(<<z[1], z[3]>>, <<z[2], z[4]>>,
                         <<factors[j][1], factors[j][3]>>,
                         <<factors[j][2], factors[j][4]>>, prec, target_prec),
                    factors, j + 1, prec, target_prec)

\* The loop is over: evalf_mul returns.
MulReturn ==
    /\ mul.pc = "loop"
    /\ mul.i = mul.n
    /\ LET sign == (mul.direction \div 2) % 2
           v == normalize(sign, mul.man, mul.exp, bitcount(mul.man), mul.prec)
           first == mul.complex_factors[1]
           z == MulComplex(<<fmul(first[1], v, mul.prec),
                             fmul(first[2], v, mul.prec),
                             Min(first[3], mul.acc), Min(first[4], mul.acc)>>,
                           mul.complex_factors, 2, mul.prec, mul.target_prec)
           odd == mul.direction % 2 = 1 IN
       mul' = [mul EXCEPT
                 !.pc = "returned",
                 !.z = IF mul.complex_factors # <<>> THEN z ELSE ZeroResult,
                 !.out = IF mul.complex_factors # <<>>
                         THEN IF odd THEN <<fneg(z[2]), z[1], z[3], z[4]>>
                              ELSE z
                         ELSE IF odd THEN <<None, v, NoAcc, mul.acc>>
                              ELSE <<v, None, mul.acc, NoAcc>>]
    /\ UNCHANGED mulOthers

NextMul ==
    \/ MulCall
    \/ MulFactor
    \/ MulReturn

(***************************************************************************)
(* evalf_integral: the retry loop over do_integral                         *)
(***************************************************************************)

\* The model stops counting workprec at WorkCap and i at MaxRetry: beyond
\* them the loop goes on as it does at them.
WorkCap == 1000
MaxRetry == 10

\* What complex_accuracy(do_integral(expr, workprec, options)) may be: -1 for
\* a scaled zero, a shortfall set by the quadrature error, the target, or INF
\* for an integrand that has no part.
IntegralAccSet(prec) == {-50, -1, prec - 3, prec, INF}

\* The options dict evalf_integral is called with: the dict of the top-level
\* call, in which Basic_evalf has set 'maxprec', or for an integral inside
\* the integrand of another the dict {'subs': {x: t}} that do_integral's f
\* builds, which has no 'maxprec'.
IntegralOptions(nested) ==
    IF nested THEN {NoMaxprec}
    ELSE {WithMaxprec(v) : v \in MaxprecSet \cup {DEFAULT_MAXPREC}}

EiIdle == ei = [pc |-> "idle", prec |-> 0, workprec |-> 0, i |-> 0,
                maxprec |-> 0, nested |-> FALSE, accuracy |-> 0,
                exc |-> "none"]

\* evalf_integral(expr, prec, options) up to its loop.
IntegralCall ==
    /\ ei.pc = "idle"
    /\ \E prec \in PrecSet, nested \in BOOLEAN :
       \E o \in IntegralOptions(nested) :
          ei' = [ei EXCEPT !.pc = "loop", !.prec = prec, !.workprec = prec,
                           !.i = 0, !.maxprec = OptGet(o, INF),
                           !.nested = nested]
    /\ UNCHANGED eiOthers

\* One pass of the loop: do_integral returns a result of the given combined
\* accuracy.
IntegralPass ==
    /\ ei.pc = "loop"
    /\ \E accuracy \in IntegralAccSet(ei.prec) :
          IF accuracy >= ei.prec \/ ei.workprec >= ei.maxprec
          THEN ei' = [ei EXCEPT !.pc = "returned", !.accuracy = accuracy]
          ELSE ei' = [ei EXCEPT
                        !.accuracy = accuracy,
                        !.workprec = Min(WorkCap, ei.workprec + ei.prec
                                         - Max(-(2 ^ ei.i), accuracy)),
                        !.i = Min(MaxRetry, ei.i + 1)]
    /\ UNCHANGED eiOthers

\* do_integral raises, and evalf_integral lets it through.
IntegralRaises ==
    /\ ei.pc = "loop"
    /\ \E e \in ExcSet : ei' = [ei EXCEPT !.pc = "raised", !.exc = e]
    /\ UNCHANGED eiOthers

NextIntegral ==
    \/ IntegralCall
    \/ IntegralPass
    \/ IntegralRaises

(***************************************************************************)
(* finalize_complex, complex_accuracy and chop_parts, called on their own  *)
(***************************************************************************)

\* finalize_complex(re, im, prec): the tuple returned; the call raises
\* ValueError instead when both parts are fzero.
finalize_complex_raises(re, im) == re = fzero /\ im = fzero

finalize_complex(re, im, prec) ==
    LET re1 == IF re = fzero THEN fshift_fone(fastlog(im) - prec) ELSE re
        im1 == IF re # fzero /\ im = fzero
               THEN fshift_fone(fastlog(re) - prec) ELSE im
        accs == finalize_complex_acc(fastlog(re1), fastlog(im1), prec) IN
    <<re1, im1, accs[1], accs[2]>>

\* The parts and accuracies the three functions are called with: values of
\* several magnitudes and both signs, accuracies from far below zero up to
\* the precision.
KnPrecSet == {10, 30}
KnValues ==
    {MakeMpf(s, m, e) : s \in {0, 1}, m \in {1, 5}, e \in {-40, -12, -8, 0, 3}}
KnAccSet(prec) == {-60, -1, 0, 1, 2, 5, prec}
KnResults(prec) ==
    {<<re, im, re_acc, im_acc>> :
        re \in KnValues \cup {fzero, None},
        im \in KnValues \cup {fzero, None},
        re_acc \in KnAccSet(prec) \cup {NoAcc},
        im_acc \in KnAccSet(prec) \cup {NoAcc}}

\* An absent part has the accuracy None and a present part has a number.
KnWellFormed(r) ==
    /\ (r[1] = None) <=> (r[3] = NoAcc)
    /\ (r[2] = None) <=> (r[4] = NoAcc)

KnIdle == kn = [pc |-> "idle", fn |-> "none", arg |-> NoResult, prec |-> 0,
                out |-> NoResult, acc |-> 0, exc |-> "none"]

\* finalize_complex(re, im, prec) on two mpf values, from call to return.
FinalizeComplexCall ==
    /\ kn.pc = "idle"
    /\ \E re \in KnValues \cup {fzero}, im \in KnValues \cup {fzero},
          prec \in KnPrecSet :
          kn' = IF finalize_complex_raises(re, im)
                THEN [kn EXCEPT !.pc = "raised", !.fn = "finalize_complex",
                                !.arg = <<re, im, NoAcc, NoAcc>>,
                                !.prec = prec, !.exc = "ValueError"]
                ELSE [kn EXCEPT !.pc = "returned", !.fn = "finalize_complex",
                                !.arg = <<re, im, NoAcc, NoAcc>>,
                                !.prec = prec,
                                !.out = finalize_complex(re, im, prec)]
    /\ UNCHANGED knOthers

\* With two fzero parts both sizes are MINUS_INF, and the float arithmetic
\* of complex_accuracy gives -inf - -inf: not a number, which compares
\* neither above nor below anything.
NaN == INF + INF

complex_accuracy_float(r) ==
    IF r[1] = fzero /\ r[2] = fzero THEN NaN ELSE complex_accuracy(r)

\* complex_accuracy(result), from call to return.
ComplexAccuracyCall ==
    /\ kn.pc = "idle"
    /\ \E prec \in KnPrecSet :
          \E r \in KnResults(prec) :
             /\ KnWellFormed(r)
             /\ kn' = [kn EXCEPT !.pc = "returned", !.fn = "complex_accuracy",
                                 !.arg = r, !.prec = prec,
                                 !.acc = complex_accuracy_float(r)]
    /\ UNCHANGED knOthers

\* chop_parts(value, prec), from call to return.
ChopPartsCall ==
    /\ kn.pc = "idle"
    /\ \E prec \in KnPrecSet :
          \E r \in KnResults(prec) :
             /\ KnWellFormed(r)
             /\ kn' = [kn EXCEPT !.pc = "returned", !.fn = "chop_parts",
                                 !.arg = r, !.prec = prec,
                                 !.out = chop_parts(r, prec)]
    /\ UNCHANGED knOthers

NextKernel ==
    \/ FinalizeComplexCall
    \/ ComplexAccuracyCall
    \/ ChopPartsCall

(***************************************************************************)
(* Specifications                                                          *)
(***************************************************************************)

Init ==
    /\ AddIdle
    /\ GcpIdle
    /\ DispIdle
    /\ GipIdle
    /\ AtIdle
    /\ CmIdle
    /\ MulIdle
    /\ UnIdle
    /\ SymIdle
    /\ EiIdle
    /\ KnIdle
    /\ TopIdle

SpecAdd == Init /\ [][NextAdd]_vars

\* Python runs a call to its end: a step that can be taken is taken.
SpecAddFair == Init /\ [][NextAdd]_vars /\ WF_vars(NextAdd)

SpecPart == Init /\ [][NextPart]_vars

SpecEvalf == Init /\ [][NextEvalf]_vars

SpecInt == Init /\ [][NextInt]_vars

SpecTerms == Init /\ [][NextTerms]_vars

SpecCmul == Init /\ [][NextCmul]_vars

SpecMul == Init /\ [][NextMul]_vars

SpecFunc == Init /\ [][NextFunc]_vars

\* Python runs a call to its end here too.
SpecFuncFair == Init /\ [][NextFunc]_vars /\ WF_vars(TrigIterate)

SpecSymbol == Init /\ [][NextSymbol]_vars

\* A call of evalf_integral runs on as long as it can.
SpecIntegralFair == Init /\ [][NextIntegral]_vars /\ WF_vars(IntegralPass)

SpecKernel == Init /\ [][NextKernel]_vars

SpecBasic == Init /\ [][NextBasic]_vars

(***************************************************************************)
(* Properties of evalf_add and do_integral                                 *)
(***************************************************************************)

\* C1: a call of evalf_add or do_integral entered with options['maxprec'] set
\* leaves the key with the value it found, whether it returns normally, gives
\* up at the ceiling or is left by an exception of a child, at any nesting.
C1_MaxprecRestored ==
    (ret.kind \in {"add", "integral"} /\ ret.entry.set) => ret.exit = ret.entry

\* A nested evalf_add, entered under a ceiling its caller had lowered, is left
\* by an exception and has put that lowered ceiling back.
C1_Witness ==
    /\ ret.kind = "add"
    /\ ret.path = "raise"
    /\ ret.depth >= 2
    /\ ret.entry.set
    /\ ret.entry.v \notin MaxprecSet
    /\ ret.exit = ret.entry

\* What every retry of evalf_add has done: raised the working precision by at
\* least 10 + 2^i and by at least the shortfall, and only after the precision
\* added beyond the target was found within the ceiling.
AddGrowth ==
    \A k \in 1..Depth :
        (stack[k].kind = "add" /\ stack[k].i >= 1) =>
            LET f == stack[k] IN
            /\ f.prec - f.prevprec >= 10 + 2 ^ (f.i - 1)
            /\ f.prec - f.prevprec >= f.target - f.prevacc
            /\ f.prevprec - f.target <= Min(f.oldmaxprec, 2 * f.prevprec)

\* Giving up at the ceiling is a return of the insufficient sum, not a raise.
AddGivesUpQuietly ==
    ret.path = "early" => (ret.kind = "add" /\ ret.short /\ exc = "none")

\* C4: evalf_add's loop ends whatever its children return: each retry grows
\* the precision by at least 10 + 2^i and the shortfall, the loop returns the
\* best sum once the added precision exceeds the ceiling, and so every call
\* started comes back.
C4_AddTerminates ==
    /\ [](AddGrowth /\ AddGivesUpQuietly)
    /\ []<>(Depth = 0)

\* evalf_add has retried and then given up at the ceiling with a sum short of
\* the target.
C4_Witness ==
    /\ ret.kind = "add"
    /\ ret.path = "early"
    /\ ret.short

\* C5: no iteration of evalf_add evaluates its summands (at prec+10) above the
\* ceiling that was in force when evalf_add was entered; stated here for the
\* retries of a call whose first iteration lay within that ceiling.
C5_SummandsWithinCeiling ==
    \A k \in 1..Depth :
        (/\ stack[k].kind = "add"
         /\ stack[k].entry.set
         /\ stack[k].target + 10 <= stack[k].entry.v
         /\ stack[k].i >= 1) =>
            stack[k].prec + 10 <= stack[k].entry.v

(***************************************************************************)
(* Properties of get_complex_part and of the dispatcher                    *)
(***************************************************************************)

\* C3: get_complex_part respects the ceiling: it retries at a higher working
\* precision only while the working precision has not passed
\* options['maxprec']; once it has, the loop returns.
C3_PartRespectsCeiling ==
    (gcp.pc = "eval" /\ gcp.i >= 1) => gcp.prevwork <= gcp.maxprec

Directed(no, n, s) ==
    IF no = -1 /\ s < 0 THEN n - 1
    ELSE IF no = 1 /\ s > 0 THEN n + 1
    ELSE n

\* C6: get_integer_part never rounds the wrong way: for each part that is
\* there, floor returns n-1 exactly when the residual part - n is negative
\* and n otherwise, ceiling n+1 exactly when it is positive and n otherwise.
C6_NeverRoundsWrongWay ==
    gip.pc = "returned" =>
        /\ Present(gip.re) =>
              gip.re = from_int(Directed(gip.no, gip.nint_re, fcmp_zero(gip.rre.v)))
        /\ Present(gip.im) =>
              gip.im = from_int(Directed(gip.no, gip.nint_im, fcmp_zero(gip.rim.v)))

\* The real part alone is rounded the right way.
C6_RealPartRight ==
    /\ gip.pc = "returned"
    /\ Present(gip.re)
    /\ gip.no = -1
    /\ fcmp_zero(gip.rre.v) = -1
    /\ gip.re = from_int(gip.nint_re - 1)

AllPresent(terms) == \A k \in 1..Len(terms) : Present(terms[k][1])

\* The number of terms that are there among the first k.
RECURSIVE PresentCount(_, _)
PresentCount(terms, k) ==
    IF k = 0 THEN 0
    ELSE PresentCount(terms, k - 1) + (IF Present(terms[k][1]) THEN 1 ELSE 0)

\* The least exponent of the terms that are there.
RECURSIVE MinExp(_, _)
MinExp(terms, k) ==
    IF k = 0 THEN INF
    ELSE IF Present(terms[k][1])
    THEN Min(MinExp(terms, k - 1), terms[k][1][3])
    ELSE MinExp(terms, k - 1)

\* The mantissas of the terms, aligned at exponent e0 and summed.
RECURSIVE AlignedSum(_, _, _)
AlignedSum(terms, k, e0) ==
    IF k = 0 THEN 0
    ELSE IF Present(terms[k][1])
    THEN AlignedSum(terms, k - 1, e0)
         + SignedMan(terms[k][1]) * 2 ^ (terms[k][1][3] - e0)
    ELSE AlignedSum(terms, k - 1, e0)

\* The largest bit count + exponent - accuracy of the terms that are there.
RECURSIVE MaxAbsErr(_, _)
MaxAbsErr(terms, k) ==
    IF k = 0 THEN MINUS_INF
    ELSE IF Present(terms[k][1])
    THEN Max(MaxAbsErr(terms, k - 1),
             terms[k][1][4] + terms[k][1][3] - terms[k][2])
    ELSE MaxAbsErr(terms, k - 1)

\* The exact sum of the terms, in units of 2^MinExp.
ExactSum(terms) == AlignedSum(terms, Len(terms), MinExp(terms, Len(terms)))

Cancels(terms) ==
    /\ Len(terms) >= 2
    /\ PresentCount(terms, Len(terms)) >= 2
    /\ ExactSum(terms) = 0

\* C8: for a list of two or more terms whose aligned mantissas sum to zero,
\* add_terms never returns a value with an accuracy of 0 or more: what it
\* returns is tagged with the accuracy -1.
C8_CancellationSafe ==
    (at.pc = "returned" /\ Cancels(at.terms)) => at.out[2] = -1

\* The list [x, -x] comes back as the scaled zero.
C8_PairCancels ==
    /\ at.pc = "returned"
    /\ Len(at.terms) = 2
    /\ AllPresent(at.terms)
    /\ at.terms[2][1] = fneg(at.terms[1][1])
    /\ at.out = <<fshift_fone(MaxAbsErr(at.terms, 2)), -1>>

(***************************************************************************)
(* Properties of the powers and special functions                          *)
(***************************************************************************)

\* C9: when the argument of a power, an arctangent, a logarithm or a sine or
\* cosine came back with an accuracy a below the precision asked of it, the
\* operator reports no accuracy above a.
C9_NoAccuracyAboveArgument ==
    (un.pc = "returned" /\ un.a < un.asked) =>
        /\ un.re_acc <= un.a
        /\ un.im_acc <= un.a

(***************************************************************************)
(* Properties of evalf_symbol                                              *)
(***************************************************************************)

\* A request answered from the cache found an entry of precision >= prec,
\* whose value was computed at a precision >= prec.
ServedFromCache ==
    sym.last.kind = "cached" =>
        /\ sym.last.had[2] >= sym.last.prec
        /\ sym.last.v = sym.last.had[1]
        /\ sym.last.v # None
        /\ sym.last.v[1] = sym.last.name
        /\ sym.last.v[2] >= sym.last.prec

\* A binding is evaluated only when no entry of precision >= prec exists,
\* and the entry then becomes (result, prec).
EvaluatedOnMiss ==
    /\ \A k \in 1..Len(sym.pending) :
          sym.pending[k].had[2] < sym.pending[k].prec
    /\ sym.last.kind = "evaluated" =>
          /\ sym.last.had[2] < sym.last.prec
          /\ CacheGet(sym.cache, sym.last.name)
                = <<<<sym.last.name, sym.last.prec>>, sym.last.prec>>

\* The cached precision of a symbol never decreases.
CacheOnlyGrows ==
    \A n \in SymNames :
        CacheGet(sym.cache, n)[2] <= CacheGet(sym'.cache, n)[2]

\* C10: for a symbol not bound to an mpf, the cached result is returned if
\* and only if an entry of cached precision >= prec exists, otherwise the
\* binding is evaluated at prec and the entry replaced by (result, prec); so
\* the cached precision never decreases and what the cache serves was
\* computed at a precision >= the one requested.
C10_CacheServesOnlyEnoughPrecision ==
    /\ [](ServedFromCache /\ EvaluatedOnMiss)
    /\ [][CacheOnlyGrows]_vars

\* A request was answered from an entry of a higher precision.
C10_Witness ==
    /\ sym.last.kind = "cached"
    /\ sym.last.had[2] > sym.last.prec
    /\ sym.pending # <<>>

(***************************************************************************)
(* Properties of the options object                                        *)
(***************************************************************************)

\* C11: every evaluation under way within one top-level call works on the
\* options object of that call, the integrand of an integral at a sample
\* point included: no frame holds another dict, and the ceiling given at the
\* top level is in force in the dict of every frame.
C11_SameOptionsObject ==
    \A k \in 1..Depth :
        /\ stack[k].d = 1
        /\ opts[stack[k].d].set

\* Nested sums and integrals do share the dict of the top-level call.
C11_NestedShare ==
    /\ Depth >= 3
    /\ \A k \in 1..Depth : stack[k].d = 1 /\ stack[k].kind # "f"

(***************************************************************************)
(* Properties of the dispatcher's fallback                                 *)
(***************************************************************************)

\* C13: for a node whose kind has no evaluator, evalf takes the node's own
\* value as a purely real result of accuracy prec, or raises
\* NotImplementedError when the node has none; chopping and the strict check
\* are then applied to that result as to any evaluator's.
C13_FallbackIsRealAtPrec ==
    disp.how = "fallback" =>
        /\ disp.pc \in {"evaluated", "returned"} =>
              /\ disp.r[1] \in DispValues
              /\ disp.r[2] = None
              /\ disp.r[3] = disp.prec
        /\ disp.pc = "returned" =>
              /\ disp.out = IF disp.chop THEN chop_parts(disp.r, disp.prec)
                            ELSE disp.r
              /\ disp.strict => ~check_target(disp.out, disp.prec)
        /\ disp.pc = "raised" => disp.err = "NotImplementedError"

\* A fallback value too small for the precision is chopped to exact zero.
C13_Witness ==
    /\ disp.how = "fallback"
    /\ disp.pc = "returned"
    /\ disp.chop
    /\ disp.strict
    /\ disp.r[1] # None
    /\ disp.out = NoResult

(***************************************************************************)
(* Properties of Basic_evalf                                               *)
(***************************************************************************)

\* No construct below Basic_evalf has caught a NotImplementedError.
OnlyTopCatchesNotImplemented ==
    \A h \in top.caught :
        h[2] = "NotImplementedError" => h[1] = "Basic_evalf"

\* A NotImplementedError on its way up leaves one construct at a time, and
\* from the outermost goes to the plain evaluation: nothing is evaluated
\* again on the way.
NotImplementedGoesUp ==
    (top.pc = "unwinding" /\ top.exc = "NotImplementedError") =>
        \/ /\ top.nest # <<>>
           /\ top'.pc = "unwinding"
           /\ top'.exc = "NotImplementedError"
           /\ top'.nest = SubSeq(top.nest, 1, Len(top.nest) - 1)
        \/ /\ top.nest = <<>>
           /\ top'.pc = "plain"

\* After the plain evaluation the call returns: the expression itself when
\* it has no plain value, the normalized number, or the plain value.
PlainAlwaysReturns ==
    /\ (top.pc = "done" /\ top.plain # "none") =>
          /\ top.out.kind # "raised"
          /\ (top.plain = "None") <=> (top.out.kind = "unevaluated")
          /\ (top.plain = "number") <=> (top.out.kind = "number")
          /\ (top.plain = "symbolic") <=> (top.out.kind = "plain")
    /\ top.out.kind = "raised" => top.out.err # "NotImplementedError"

LeafIsImaginary(x) == x[1] = "ImaginaryUnit"
LeafIsZero(x) == x[1] = "Zero"

\* The mpf value v is p/q rounded to nearest: |v - p/q| <= half a unit in
\* the last place of v, and v has the sign of p.
RoundedRight(v, p, q) ==
    /\ v # None
    /\ v[1] = (IF p < 0 THEN 1 ELSE 0)
    /\ IF v[3] >= 0
       THEN LET d == 2 * (v[2] * 2 ^ v[3] * q - Abs(p)) IN
            Abs(d) <= q * 2 ^ v[3]
       ELSE LET d == 2 * (v[2] * q - Abs(p) * 2 ^ (-v[3])) IN
            Abs(d) <= q

\* The table's entry for an exact number, at precision prec: the one part
\* carries the number with accuracy prec, the other part is absent.
LeafExactAt(x, prec) ==
    LET r == Leaf(x, prec) IN
    IF LeafIsZero(x) THEN r[1] = None /\ r[2] = None
    ELSE IF LeafIsImaginary(x)
    THEN r[1] = None /\ r[2] = fone /\ r[4] = prec
    ELSE /\ r[2] = None
         /\ r[3] = prec
         /\ RoundedRight(r[1], x[2], x[3])
         /\ bitcount(Abs(x[2])) <= prec /\ x[3] = 1 => r[1] = from_int(x[2])

RoundedSum(terms, prec) ==
    LET S == ExactSum(terms) IN
    normalize(IF S < 0 THEN 1 ELSE 0, Abs(S), MinExp(terms, Len(terms)),
              bitcount(Abs(S)), prec)

\* C16: for a list of two or more present terms with a nonzero sum, add_terms
\* returns the exact sum of the terms rounded to the target precision:
\* dropping a term never changes the result, and no term is dropped against
\* the still-empty running sum.
C16_DropsOnlyNegligible ==
    (at.pc = "returned" /\ Len(at.terms) >= 2 /\ AllPresent(at.terms)
        /\ ExactSum(at.terms) # 0)
    => at.out[1] = RoundedSum(at.terms, at.target_prec)

\* A term more than 4*prec binary places below the running sum is dropped
\* and the rounded sum is the exact one.
C16_NegligibleDropped ==
    /\ at.pc = "returned" /\ Len(at.terms) = 2 /\ AllPresent(at.terms)
    /\ at.terms[1][1][3] - at.terms[2][1][3] > 4 * at.prec
    /\ at.out[1] = RoundedSum(at.terms, at.target_prec)

\* The error of one term: bit count + exponent - accuracy.
TermErr(term) == term[1][4] + term[1][3] - term[2]

\* The running sum of add_terms after the whole list.
RunningSum == AddLoop(at.terms, Len(at.terms), at.prec)

C18_CrossTermAccuracies ==
    cm.pc = "returned" =>
        /\ cm.re_terms[1][2] = Min(cm.a[2], cm.c[2])
        /\ cm.re_terms[2][2] = Min(cm.b[2], cm.d[2])
        /\ cm.im_terms[1][2] = Min(cm.a[2], cm.d[2])
        /\ cm.im_terms[2][2] = Min(cm.b[2], cm.c[2])

\* The accuracies of the four parts differ enough to tell the pairings
\* apart, and the terms of the real part and a*d carry the right ones.
C18_RealPartTermsRight ==
    /\ cm.pc = "returned"
    /\ cm.a[2] # cm.b[2] /\ cm.c[2] = cm.b[2] /\ cm.d[2] = cm.a[2]
    /\ cm.re_terms[1][2] = Min(cm.a[2], cm.c[2])
    /\ cm.re_terms[2][2] = Min(cm.b[2], cm.d[2])
    /\ cm.im_terms[1][2] = Min(cm.a[2], cm.d[2])

\* A product of purely real and purely imaginary factors has returned.
PureProductReturned ==
    mul.pc = "returned" /\ mul.complex_factors = <<>>

\* Some factor of the product was an exact zero: the loop returned early.
ZeroFactor == mul.pc = "returned" /\ mul.i < mul.n

\* The part of the result that is there, and its accuracy.
MulPart == IF mul.k % 2 = 0 THEN mul.out[1] ELSE mul.out[2]
MulPartAcc == IF mul.k % 2 = 0 THEN mul.out[3] ELSE mul.out[4]

RECURSIVE MinOf(_)
MinOf(S) ==
    IF S = {} THEN INF
    ELSE LET x == CHOOSE y \in S : TRUE IN Min(x, MinOf(S \ {x}))

\* The value x is the product mag * 2^e0 to within three bits of the working
\* precision.
NearProduct(x, mag, e0, prec) ==
    LET sh == x[3] - e0 IN
    /\ x # fzero
    /\ sh >= 0
    /\ sh + x[4] <= 31
    /\ Abs(x[2] * 2 ^ sh - mag) <= mag \div 2 ^ (prec - 3)

\* The zero, accuracy, part and sign rules of a product of purely real and
\* purely imaginary factors.
MulPhaseAndAccuracy ==
    PureProductReturned =>
        IF ZeroFactor THEN mul.out = ZeroResult
        ELSE /\ MulPartAcc = Min(mul.target_prec, MinOf(mul.accs))
             /\ mul.out[IF mul.k % 2 = 0 THEN 2 ELSE 1] = None
             /\ mul.out[IF mul.k % 2 = 0 THEN 4 ELSE 3] = NoAcc
             /\ Present(MulPart)
             /\ MulPart # fzero =>
                    MulPart[1] = (IF (mul.k + 2 * mul.s) % 4 \in {2, 3}
                                  THEN 1 ELSE 0)

\* C19: a product of purely real and purely imaginary factors is the exact
\* zero when a factor is; otherwise its accuracy is the least of the target
\* precision and the factors' accuracies, and it is the product of the
\* magnitudes times i^(k+2s): real for k even, imaginary for k odd, negated
\* when (k+2s) mod 4 is 2 or 3.
C19_ProductOfPureFactors ==
    /\ MulPhaseAndAccuracy
    /\ (PureProductReturned /\ ~ZeroFactor /\ mul.mag # -1
            /\ \A a \in mul.accs : a >= mul.target_prec) =>
            NearProduct(MulPart, mul.mag, mul.sumexp, mul.prec)

\* Three factors, an imaginary and a negative one among them, multiplied to
\* the right value, part, sign and accuracy.
C19_PhaseRight ==
    /\ PureProductReturned /\ ~ZeroFactor
    /\ mul.n = 3 /\ mul.k = 1 /\ mul.s = 1 /\ mul.mag > 1
    /\ mul.out[1] = None
    /\ mul.out[2][1] = 1
    /\ mul.out[4] = Min(mul.target_prec, MinOf(mul.accs))
    /\ NearProduct(mul.out[2], mul.mag, mul.sumexp, mul.prec)

(***************************************************************************)
(* Properties of the loop of evalf_trig                                    *)
(***************************************************************************)

\* One pass of the loop of evalf_trig, as it may go: it returns the target
\* as the accuracy when (xprec - xsize) - gap reaches it; it returns the
\* insufficient accuracy when xprec is above the ceiling; it enlarges xprec
\* by the gap, a positive one, otherwise.
TrigPass ==
    (un.pc = "loop" /\ un'.pc # "raised") =>
        LET accuracy == (un.xprec - un.xsize) - un'.gap
            ceiling == OptGet(un.maxprec, DEFAULT_MAXPREC) IN
        IF un'.pc = "returned"
        THEN IF accuracy >= un.prec
             THEN un'.re_acc = un.prec
             ELSE un'.re_acc = accuracy /\ un.xprec > ceiling
        ELSE /\ un'.pc = "loop"
             /\ accuracy < un.prec
             /\ un.xprec <= ceiling
             /\ un'.gap > 0
             /\ un'.xprec = un.xprec + un'.gap

\* C20: in its loop evalf_trig returns the target as the accuracy only when
\* (xprec - xsize) - gap >= target; otherwise it enlarges xprec by the gap,
\* which is positive, and gives up with the insufficient accuracy only once
\* xprec is above the ceiling; and the loop comes to an end.
C20_TrigLoopTerminates ==
    /\ [][TrigPass]_vars
    /\ (un.pc = "loop") ~> (un.pc \in {"returned", "raised"})

\* The loop has enlarged xprec and then found the accuracy sufficient.
C20_Witness ==
    /\ un.op = "trig" /\ un.pc = "returned"
    /\ un.xsize >= 1 /\ un.xsize < 10
    /\ un.xprec > un.prec + 20
    /\ un.re_acc = un.prec

(***************************************************************************)
(* Properties of evalf_integral                                            *)
(***************************************************************************)

\* A retry enlarges workprec by prec - max(-2^i, accuracy), which is more
\* than nothing, and is made only below the ceiling and short of the target.
IntegralRetry ==
    (ei.pc = "loop" /\ ei'.pc = "loop") =>
        /\ ei'.accuracy < ei.prec
        /\ ei.workprec < ei.maxprec
        /\ ei.workprec < WorkCap =>
              /\ ei'.workprec > ei.workprec
              /\ ei'.workprec = Min(WorkCap, ei.workprec + ei.prec
                                    - Max(-(2 ^ ei.i), ei'.accuracy))

C22_ZeroIsAbsent ==
    /\ gip.pc = "returned" => (gip.re # fzero /\ gip.im # fzero)
    /\ mul.pc = "returned" => (mul.out[1] # fzero /\ mul.out[2] # fzero)
    /\ cm.pc = "returned" => (cm.out[1] # fzero /\ cm.out[2] # fzero)

\* A floor or ceiling that is not zero comes back as a present real part.
C22_NonzeroInteger ==
    /\ gip.pc = "returned"
    /\ Present(gip.re) /\ gip.re # fzero /\ ~Present(gip.im)

(***************************************************************************)
(* Properties of finalize_complex, complex_accuracy and chop_parts         *)
(***************************************************************************)

\* The magnitude gap between the two parts of a result.
SizeGap(r) == Abs(fastlog(r[1]) - fastlog(r[2]))

\* C23: finalize_complex(re, im, prec) raises ValueError when both parts are
\* exactly zero; otherwise an exactly-zero part is replaced by the scaled
\* zero 2^(size of the other part - prec), the other part is returned as it
\* came, the part of larger magnitude gets the accuracy prec, the other one
\* prec minus the magnitude gap, and complex_accuracy of the returned tuple is
\* exactly prec.
C23_FinalizeComplex ==
    kn.fn = "finalize_complex" =>
        LET re == kn.arg[1]
            im == kn.arg[2]
            out == kn.out IN
        IF re = fzero /\ im = fzero
        THEN kn.pc = "raised" /\ kn.exc = "ValueError"
        ELSE /\ kn.pc = "returned"
             /\ out[1] = (IF re = fzero
                          THEN <<0, 1, (im[3] + im[4]) - kn.prec, 1>> ELSE re)
             /\ out[2] = (IF im = fzero
                          THEN <<0, 1, (re[3] + re[4]) - kn.prec, 1>> ELSE im)
             /\ IF fastlog(out[1]) >= fastlog(out[2])
                THEN out[3] = kn.prec /\ out[4] = kn.prec - SizeGap(out)
                ELSE out[4] = kn.prec /\ out[3] = kn.prec - SizeGap(out)
             /\ complex_accuracy(out) = kn.prec

\* finalize_complex has returned for a zero real part beside an imaginary
\* part, and the scaled zero got less than the precision.
C23_ScaledZeroReturned ==
    /\ kn.fn = "finalize_complex"
    /\ kn.pc = "returned"
    /\ kn.arg[1] = fzero
    /\ kn.out[3] < kn.prec
    /\ kn.out[4] = kn.prec

\* C24: complex_accuracy returns +infinity when both parts are absent and
\* the accuracy of the only present part when one is absent; with both
\* present it returns max(size re, size im) - max(size re - re_acc,
\* size im - im_acc), which is never above the accuracy of the part of larger
\* magnitude and never below min(re_acc, im_acc).  (For two fzero parts the
\* difference is not a number, which is neither above nor below anything.)
C24_ComplexAccuracy ==
    (kn.fn = "complex_accuracy" /\ kn.pc = "returned") =>
        LET re == kn.arg[1]
            im == kn.arg[2]
            re_acc == kn.arg[3]
            im_acc == kn.arg[4]
            sr == fastlog(re)
            si == fastlog(im) IN
        /\ (re = None /\ im = None) => kn.acc = INF
        /\ (re # None /\ im = None) => kn.acc = re_acc
        /\ (re = None /\ im # None) => kn.acc = im_acc
        /\ (re # None /\ im # None) =>
              IF re = fzero /\ im = fzero
              THEN kn.acc = NaN
              ELSE /\ kn.acc = (IF sr >= si THEN sr ELSE si)
                              - (IF sr - re_acc >= si - im_acc
                                 THEN sr - re_acc ELSE si - im_acc)
                   /\ sr >= si => kn.acc <= re_acc
                   /\ si >= sr => kn.acc <= im_acc
                   /\ kn.acc >= re_acc \/ kn.acc >= im_acc

\* complex_accuracy has returned for two present parts an accuracy strictly
\* between the smaller accuracy and the accuracy of the larger part.
C24_BetweenTheTwo ==
    /\ kn.fn = "complex_accuracy"
    /\ kn.pc = "returned"
    /\ kn.arg[1] \in KnValues
    /\ kn.arg[2] \in KnValues
    /\ fastlog(kn.arg[1]) > fastlog(kn.arg[2])
    /\ kn.acc < kn.arg[3]
    /\ kn.acc > kn.arg[4]

\* chop_parts was called on two present parts that both pass the absolute
\* threshold, so that only the relative rule can remove one.
RelativeRuleOnly ==
    /\ kn.fn = "chop_parts"
    /\ kn.pc = "returned"
    /\ Present(kn.arg[1])
    /\ Present(kn.arg[2])
    /\ fastlog(kn.arg[1]) >= -kn.prec + 4
    /\ fastlog(kn.arg[2]) >= -kn.prec + 4

\* The value with its real and imaginary parts exchanged.
Swapped(r) == <<r[2], r[1], r[4], r[3]>>

NeverBothRemoved == RelativeRuleOnly => Present(kn.out[1]) \/ Present(kn.out[2])

OnlySmallerRemoved ==
    RelativeRuleOnly =>
        /\ ~Present(kn.out[1]) => fastlog(kn.arg[1]) < fastlog(kn.arg[2])
        /\ ~Present(kn.out[2]) => fastlog(kn.arg[2]) < fastlog(kn.arg[1])

ChopsSymmetrically ==
    RelativeRuleOnly => chop_parts(Swapped(kn.arg), kn.prec) = Swapped(kn.out)

\* C25: when both parts are present and above the absolute threshold,
\* chop_parts removes only the part of smaller magnitude, treats the real
\* and the imaginary part alike, and never removes both, so that such a
\* value is never chopped to an exact zero.
C25_RelativeRule ==
    /\ NeverBothRemoved
    /\ OnlySmallerRemoved
    /\ ChopsSymmetrically

\* The relative rule has removed an inaccurate real part far below the
\* imaginary part and kept the imaginary part.
C25_SmallPartRemoved ==
    /\ RelativeRuleOnly
    /\ ~Present(kn.out[1])
    /\ Present(kn.out[2])
    /\ fastlog(kn.arg[1]) < fastlog(kn.arg[2])

\* C26: chop_parts(value, prec) replaces a present part by the exact zero
\* whenever fastlog(part) < -prec + 4, never changes the value or the
\* accuracy of a part it keeps, and never makes an absent part present.
C26_ChopParts ==
    (kn.fn = "chop_parts" /\ kn.pc = "returned") =>
        \A i \in {1, 2} :
            /\ (Present(kn.arg[i]) /\ fastlog(kn.arg[i]) < -kn.prec + 4)
                  => kn.out[i] = None
            /\ Present(kn.out[i])
                  => kn.out[i] = kn.arg[i] /\ kn.out[i + 2] = kn.arg[i + 2]
            /\ ~Present(kn.arg[i]) => ~Present(kn.out[i])

\* chop_parts has removed a tiny imaginary part by the absolute rule and
\* kept the real part beside it.
C26_TinyPartRemoved ==
    /\ kn.fn = "chop_parts"
    /\ kn.pc = "returned"
    /\ kn.arg[2] \in KnValues
    /\ fastlog(kn.arg[2]) < -kn.prec + 4
    /\ kn.arg[4] = kn.prec
    /\ kn.out[2] = None
    /\ Present(kn.out[1])

(***************************************************************************)
(* Properties of the integer powers                                        *)
(***************************************************************************)

\* The quarter turns of i^p: p itself for p >= 0, and those of the
\* conjugate of i^|p| for p < 0.
QuarterTurns(p) ==
    IF p >= 0 THEN p - 4 * (p \div 4)
    ELSE LET t == (-p) - 4 * ((-p) \div 4) IN IF t = 0 THEN 0 ELSE 4 - t

\* |v| is |x|^p cut down to prec bits: with |x| = m * 2^e and |v| = n * 2^f,
\* n * 2^f lies within one unit of the last of prec bits of m^p * 2^(e p),
\* or for a negative p of its reciprocal.
IsPowerOf(v, x, p, prec) ==
    LET m == x[2] ^ Abs(p)
        e == x[3] * Abs(p)
        ulp == 2 ^ (prec - v[4]) IN
    IF p >= 0
    THEN /\ v[3] >= e
         /\ Abs(m - v[2] * 2 ^ (v[3] - e)) * 2 ^ (prec - 1) < m
    ELSE /\ v[3] + e <= 0
         /\ Abs(2 ^ (-(v[3] + e)) - v[2] * m) < m * ulp

\* C27: evalf_pow with an integer exponent p # 0 and a purely imaginary base
\* x*i returns x^p turned by i^p: a real +x^p for p = 0 mod 4, an imaginary
\* +x^p for 1, a real -x^p for 2 and an imaginary -x^p for 3, for negative
\* p too, with exactly one part present; and p = 0 returns exactly one
\* without evaluating the base.
C27_ImaginaryBasePower ==
    (un.form = "int" /\ un.pc = "returned") =>
        /\ un.p = 0 =>
              /\ un.re = fone /\ un.im = None
              /\ un.re_acc = un.prec /\ un.im_acc = NoAcc
              /\ un.asked = 0 /\ un.xre = None /\ un.xim = None
        /\ (un.p # 0 /\ un.xre = None /\ un.xim # None) =>
              LET turns == QuarterTurns(un.p)
                  part == IF turns \in {0, 2} THEN un.re ELSE un.im
                  other == IF turns \in {0, 2} THEN un.im ELSE un.re
                  xneg == un.xim[1] = 1 /\ Abs(un.p) % 2 = 1
                  neg == (turns \in {2, 3}) # xneg IN
              /\ other = None
              /\ Present(part)
              /\ part[1] = (IF neg THEN 1 ELSE 0)
              /\ IsPowerOf(part, un.xim, un.p, un.prec)

\* evalf_pow has returned the power -3 of an imaginary base -x*i: an
\* imaginary part alone.
C27_NegativePowerTurned ==
    /\ un.form = "int"
    /\ un.pc = "returned"
    /\ un.p = -3
    /\ un.xre = None
    /\ un.xim # None
    /\ un.xim[1] = 1
    /\ un.xim[2] = 3
    /\ un.re = None
    /\ Present(un.im)

(***************************************************************************)
(* Properties of the mantissa and of the complex factors of evalf_mul      *)
(***************************************************************************)

\* The loop of evalf_mul has shifted the accumulated mantissa at least once:
\* its exponent is no longer the sum of the factors' exponents.
MantissaTruncated ==
    /\ mul.pc = "loop"
    /\ mul.exp # mul.sumexp

\* C28: after any sequence of nonzero purely real or purely imaginary
\* factors the accumulated mantissa of evalf_mul is nonzero, and where it was
\* truncated it still holds at least the working precision's worth of bits.
C28_MantissaKeepsPrecision ==
    mul.pc = "loop" =>
        /\ mul.man # 0
        /\ MantissaTruncated => bitcount(mul.man) >= mul.prec

\* The mantissa was truncated and still holds the working precision.
C28_TruncatedAndWide ==
    /\ MantissaTruncated
    /\ bitcount(mul.man) >= mul.prec

\* evalf_mul has returned a product with a complex factor and an odd number
\* of purely imaginary factors.
TurnedComplexProduct ==
    /\ mul.pc = "returned"
    /\ mul.complex_factors # <<>>
    /\ mul.k % 2 = 1

\* C29: in a product with a complex factor and an odd number of purely
\* imaginary factors, the multiplication by i carries each accuracy with its
\* value: the real part returned is the negated imaginary part with the
\* accuracy of that imaginary part, and the imaginary part returned is the
\* real part with the accuracy of that real part.
C29_AccuracyFollowsValue ==
    TurnedComplexProduct =>
        /\ mul.out[1] = fneg(mul.z[2])
        /\ mul.out[3] = mul.z[4]
        /\ mul.out[2] = mul.z[1]
        /\ mul.out[4] = mul.z[3]

\* The multiplication by i has exchanged the values of a product whose
\* parts have different accuracies.
C29_ValuesTurned ==
    /\ TurnedComplexProduct
    /\ mul.z[3] # mul.z[4]
    /\ mul.z[1] # fzero
    /\ mul.z[2] # fzero
    /\ mul.out[1] = fneg(mul.z[2])
    /\ mul.out[2] = mul.z[1]

(***************************************************************************)
(* Properties of a floor or ceiling node under the dispatcher              *)
(***************************************************************************)

\* get_integer_part has succeeded and evalf has finished with its result.
FloorFinished == gip.pc \in {"accepted", "rejected"}

\* C30: when get_integer_part succeeds, the accuracy it reports for each
\* present part is at least the precision asked of the floor or ceiling
\* node, so that the strict check of the dispatcher never rejects it.
C30_CertifiedPassesStrict ==
    FloorFinished =>
        /\ Present(gip.re) => gip.re_acc >= gip.prec
        /\ Present(gip.im) => gip.im_acc >= gip.prec
        /\ gip.pc # "rejected"

\* A floor or ceiling other than zero, certified with the precision asked,
\* has passed the strict check.
C30_StrictAccepted ==
    /\ gip.pc = "accepted"
    /\ gip.strict
    /\ Present(gip.re)
    /\ gip.re # fzero
    /\ gip.im = None
    /\ gip.re_acc >= gip.prec
    /\ gip.out = <<gip.re, None, gip.re_acc, NoAcc>>

====
